---- MODULE Spec2Model ----
(***************************************************************************)
(* Court record search: the orchestrator search_court_records, the New     *)
(* York retry loop and the shared _filter_and_sort_cases engine.           *)
(*                                                                         *)
(* Strings whose characters matter (names, parties, status) are sequences  *)
(* of one-character strings, so that lower(), upper() and the substring    *)
(* test are computed.  Datetimes are whole hours since 1970-01-01 00:00.   *)
(***************************************************************************)
EXTENDS Integers, Sequences, FiniteSets, TLC

VARIABLES
    criteria,     \* SearchCriteria of the running search
    now,          \* the reference clock datetime.now(), as [y, m, d, h]
    cases,        \* argument `cases` of _filter_and_sort_cases
    filtered,     \* list returned by _filter_and_sort_cases
    fs_pc,        \* "input" before _filter_and_sort_cases ran, "applied" after
    pc,           \* position of search_court_records
    idx,          \* 1-based position of the statewide loop in COUNTY_SCRAPERS
    all_cases,    \* all_cases of search_court_records
    calls,        \* history: one record per adapter invocation, in order
    ny_mode,      \* who called the New York adapter: "none", "single", "statewide"
    attempt,      \* loop variable `attempt` of the New York retry loop
    ny_outcomes,  \* history: how each New York attempt ended
    ny_slept,     \* history: the backoff delays the New York loop slept
    playwright_available,  \* PLAYWRIGHT_AVAILABLE: the playwright import worked
    response,     \* <<>> or <<r>>, r what get_api_response returned
    raw_record,   \* one raw site record handed to an extraction function
    parsed,       \* <<>> (None) or <<c>>, c the case the extraction returned
    norm_pc,      \* "raw" before the extraction ran, "parsed" after
    session,      \* <<>> or the browser session of one search(): its adapter,
                  \* page, form, locals and position (see InitAttempt)
    jobs,         \* the job store of backend/app.py: job id -> entry
    workers,      \* one run_search thread per job: position and locals
    request,      \* <<>> or the GET /api/results request being handled
    reply         \* <<>> or <<r>>, r the HTTP reply the last step sent

vars == <<criteria, now, cases, filtered, fs_pc, pc, idx, all_cases, calls,
          ny_mode, attempt, ny_outcomes, ny_slept, playwright_available,
          response, raw_record, parsed, norm_pc,
          session, jobs, workers, request, reply>>

fsVars == <<cases, filtered, fs_pc>>
orchVars == <<pc, idx, all_cases, calls, ny_mode, attempt, ny_outcomes, ny_slept>>
normVars == <<raw_record, parsed, norm_pc>>
sessVars == <<session>>
jobVars == <<jobs, workers, request, reply>>
auxVars == <<playwright_available, response, raw_record, parsed, norm_pc,
             sessVars, jobVars>>

(***************************************************************************)
(* Bounds                                                                  *)
(***************************************************************************)
\* longest case list handed to _filter_and_sort_cases in SpecFilter
MaxCases == 2
\* longest raw case list one adapter extracts in Spec
MaxRaw == 1

(***************************************************************************)
(* Text                                                                    *)
(***************************************************************************)
UpperChars == <<"A","B","C","D","E","F","G","H","I","J","K","L","M",
                "N","O","P","Q","R","S","T","U","V","W","X","Y","Z">>
LowerChars == <<"a","b","c","d","e","f","g","h","i","j","k","l","m",
                "n","o","p","q","r","s","t","u","v","w","x","y","z">>

\* the characters that occur in the modelled strings
Alphabet ==
    { UpperChars[i] : i \in 1..26 } \cup { LowerChars[i] : i \in 1..26 }
    \cup {" ", ".", ",", "-", "\\", "/"}
    \cup {"0", "1", "2", "3", "4", "5", "6", "7", "8", "9"}

ToLowerChar ==
    [c \in Alphabet |->
        IF \E i \in 1..26 : UpperChars[i] = c
        THEN LowerChars[CHOOSE i \in 1..26 : UpperChars[i] = c]
        ELSE c]

ToUpperChar ==
    [c \in Alphabet |->
        IF \E i \in 1..26 : LowerChars[i] = c
        THEN UpperChars[CHOOSE i \in 1..26 : LowerChars[i] = c]
        ELSE c]

\* str.lower()
Lower(s) == [i \in 1..Len(s) |-> ToLowerChar[s[i]]]

\* str.upper()
Upper(s) == [i \in 1..Len(s) |-> ToUpperChar[s[i]]]

\* Python's `needle in hay` on strings
Contains(needle, hay) ==
    \E k \in 0..(Len(hay) - Len(needle)) :
        \A i \in 1..Len(needle) : hay[k + i] = needle[i]

\* str.strip() for the blank character
RECURSIVE Strip(_)
Strip(s) ==
    IF s = <<>> THEN s
    ELSE IF Head(s) = " " THEN Strip(Tail(s))
    ELSE IF s[Len(s)] = " " THEN Strip(SubSeq(s, 1, Len(s) - 1))
    ELSE s

IsLetter(c) == \E i \in 1..26 : UpperChars[i] = c \/ LowerChars[i] = c

IsDigit(c) == c \in {"0", "1", "2", "3", "4", "5", "6", "7", "8", "9"}

\* str.title(): a letter is upper-cased after a character that is no letter
\* and lower-cased after a letter
Title(s) ==
    [i \in 1..Len(s) |->
        IF i = 1 \/ ~IsLetter(s[i - 1]) THEN ToUpperChar[s[i]] ELSE ToLowerChar[s[i]]]

\* sep.join(parts)
RECURSIVE Join(_, _)
Join(parts, sep) ==
    IF parts = <<>> THEN <<>>
    ELSE IF Len(parts) = 1 THEN parts[1]
    ELSE parts[1] \o sep \o Join(Tail(parts), sep)

\* any(term in text for term in terms)
AnyIn(terms, text) == \E t \in terms : Contains(t, text)

\* re.search(r'\d{4,}', text)
HasFourDigits(text) ==
    \E k \in 1..(Len(text) - 3) : \A i \in 0..3 : IsDigit(text[k + i])

\* re.search(r'\d{1,2}/\d{1,2}/\d{2,4}', text)
HasDatePattern(text) ==
    \E i, j \in 2..(Len(text) - 2) :
        /\ text[i] = "/" /\ text[j] = "/"
        /\ j - i \in {2, 3}
        /\ \A k \in (i + 1)..(j - 1) : IsDigit(text[k])
        /\ IsDigit(text[i - 1])
        /\ IsDigit(text[j + 1]) /\ IsDigit(text[j + 2])

\* None and "" are both falsy wherever the code tests an optional string;
\* both are the empty sequence here
NoneStr == <<>>

(***************************************************************************)
(* Dates                                                                   *)
(***************************************************************************)
HoursPerDay == 24
SecondsPerHour == 3600
DaysPerYear == 365

\* days from 1970-01-01 to the civil date y-m-d (proleptic Gregorian)
DaysFromCivil(y, m, d) ==
    LET yy  == IF m <= 2 THEN y - 1 ELSE y
        era == yy \div 400
        yoe == yy - era * 400
        mp  == (m + 9) % 12
        doy == (153 * mp + 2) \div 5 + d - 1
        doe == yoe * 365 + yoe \div 4 - yoe \div 100 + doy
    IN  era * 146097 + doe - 719468

\* a filing_date string, by its format:
\*   "empty" is "", "na" is "N/A", "text" is text dateutil rejects,
\*   "mdy" is MM/DD/YYYY, "isoz" is an ISO timestamp with a UTC offset
FilingDate(kind, y, m, d) == [kind |-> kind, y |-> y, m |-> m, d |-> d]

\* dateutil.parser.parse: ValueError on text it cannot read, otherwise a
\* datetime at midnight, timezone-aware when the text carries an offset
date_parser_parse(fd) ==
    IF fd.kind \in {"mdy", "isoz"}
    THEN [raises |-> "none", aware |-> (fd.kind = "isoz"),
          hours |-> DaysFromCivil(fd.y, fd.m, fd.d) * HoursPerDay]
    ELSE [raises |-> "ValueError", aware |-> FALSE, hours |-> 0]

\* datetime.now() as hours since the epoch
NowHours(n) == DaysFromCivil(n.y, n.m, n.d) * HoursPerDay + n.h

(***************************************************************************)
(* _filter_and_sort_cases                                                  *)
(***************************************************************************)
CASE_AGE_LIMIT_YEARS == 5

\* the exclusion set without its last member
EXCLUDED_CASE_TYPES_NoTraffic ==
    {"Family", "Criminal", "Criminal Felony", "Criminal Misdemeanor"}

EXCLUDED_CASE_TYPES ==
    {"Family", "Criminal", "Criminal Felony", "Criminal Misdemeanor", "Traffic"}

\* cutoff_date = datetime.now() - timedelta(days=CASE_AGE_LIMIT_YEARS * 365)
cutoff_date(n) == NowHours(n) - CASE_AGE_LIMIT_YEARS * DaysPerYear * HoursPerDay

\* `if case.filing_date and case.filing_date != "N/A"`
HasFilingDate(case) == case.filing_date.kind \notin {"empty", "na"}

\* the age test with <= in place of <
TooOld_Inclusive(case, n) ==
    IF HasFilingDate(case)
    THEN LET case_date == date_parser_parse(case.filing_date)
         IN  IF case_date.raises # "none" THEN FALSE
             ELSE IF case_date.aware THEN FALSE
             ELSE case_date.hours <= cutoff_date(n)
    ELSE FALSE

\* the try block of the age stage: TRUE when the loop `continue`s.
\* Comparing an aware datetime with the naive cutoff raises TypeError,
\* which the except clause swallows like the parser's ValueError.
TooOld(case, n) ==
    IF HasFilingDate(case)
    THEN LET case_date == date_parser_parse(case.filing_date)
         IN  IF case_date.raises # "none" THEN FALSE
             ELSE IF case_date.aware THEN FALSE
             ELSE case_date.hours < cutoff_date(n)
    ELSE FALSE

\* f"{first_name_lower[0]}\. {criteria.last_name.lower()}": the escape \.
\* is not a Python escape, so the backslash stays in the string
initial_pattern(first_name_lower, last_name) ==
    <<first_name_lower[1], "\\", ".", " ">> \o Lower(last_name)

\* f"{first_name_lower[0]} {criteria.last_name.lower()}"
initial_pattern2(first_name_lower, last_name) ==
    <<first_name_lower[1], " ">> \o Lower(last_name)

\* a name stage that asks for the first name only
NameMatches_FirstOnly(case, crit) ==
    Contains(Lower(crit.first_name), Lower(case.parties))

\* the name stage: TRUE when the case is kept
NameMatches(case, crit) ==
    LET party_text       == Lower(case.parties)
        last_in_party    == Contains(Lower(crit.last_name), party_text)
        first_name_lower == Lower(crit.first_name)
        first_in_party   ==
            \/ Contains(first_name_lower, party_text)
            \/ /\ Len(first_name_lower) > 0
               /\ \/ Contains(initial_pattern(first_name_lower, crit.last_name), party_text)
                  \/ Contains(initial_pattern2(first_name_lower, crit.last_name), party_text)
        middle_in_party  ==
            IF Len(crit.middle_name) > 0
            THEN Contains(Lower(crit.middle_name), party_text)
            ELSE FALSE
    IN  IF ~last_in_party THEN FALSE
        ELSE last_in_party /\ (first_in_party \/ middle_in_party)

\* one iteration of `for case in cases`: TRUE when the case is appended.
\* Every adapter passes its criteria, so the `if criteria:` branch is taken.
Kept(case, crit, n) ==
    IF case.case_type \in EXCLUDED_CASE_TYPES THEN FALSE
    ELSE IF TooOld(case, n) THEN FALSE
    ELSE NameMatches(case, crit)

RECURSIVE FilterLoop(_, _, _)
FilterLoop(cs, crit, n) ==
    IF cs = <<>> THEN <<>>
    ELSE LET rest == FilterLoop(Tail(cs), crit, n)
         IN  IF Kept(Head(cs), crit, n) THEN <<Head(cs)>> \o rest ELSE rest

OPEN_STATUSES_UPPER ==
    { <<"O","P","E","N">>, <<"A","C","T","I","V","E">>,
      <<"P","E","N","D","I","N","G">> }

\* the sort key comparing the status without upper()
sort_key_CaseSensitive(case) ==
    LET status_priority == IF case.status \in OPEN_STATUSES_UPPER THEN 0 ELSE 1
        date_score ==
            IF HasFilingDate(case)
            THEN LET case_date == date_parser_parse(case.filing_date)
                 IN  IF case_date.raises # "none" THEN 0
                     ELSE 0 - case_date.hours * SecondsPerHour
            ELSE 0
    IN  <<status_priority, date_score>>

\* the sort key giving a case without a readable date the score of the clock
sort_key_UnknownAsNow(case) ==
    LET status_priority == IF Upper(case.status) \in OPEN_STATUSES_UPPER THEN 0 ELSE 1
        date_score ==
            IF HasFilingDate(case)
            THEN LET case_date == date_parser_parse(case.filing_date)
                 IN  IF case_date.raises # "none"
                     THEN 0 - NowHours(now) * SecondsPerHour
                     ELSE 0 - case_date.hours * SecondsPerHour
            ELSE 0 - NowHours(now) * SecondsPerHour
    IN  <<status_priority, date_score>>

\* sort_key(case) = (status_priority, date_score)
sort_key(case) ==
    LET status_priority == IF Upper(case.status) \in OPEN_STATUSES_UPPER THEN 0 ELSE 1
        date_score ==
            IF HasFilingDate(case)
            THEN LET case_date == date_parser_parse(case.filing_date)
                 IN  IF case_date.raises # "none" THEN 0
                     ELSE 0 - case_date.hours * SecondsPerHour
            ELSE 0
    IN  <<status_priority, date_score>>

\* the strict comparison k1 < k2
KeyLE_Strict(k1, k2) == k1[1] < k2[1] \/ (k1[1] = k2[1] /\ k1[2] < k2[2])

\* tuple comparison k1 <= k2
KeyLE(k1, k2) == k1[1] < k2[1] \/ (k1[1] = k2[1] /\ k1[2] <= k2[2])

\* put c after every element whose key is <= its own (stable)
RECURSIVE InsertByKey(_, _)
InsertByKey(c, sorted) ==
    IF sorted = <<>> THEN <<c>>
    ELSE IF KeyLE(sort_key(Head(sorted)), sort_key(c))
         THEN <<Head(sorted)>> \o InsertByKey(c, Tail(sorted))
         ELSE <<c>> \o sorted

\* list.sort(key=sort_key): a stable ascending sort
RECURSIVE SortByKey(_)
\* the sort taking the elements from the front, which turns around a run of
\* equal keys
SortByKey_FromFront(cs) ==
    IF cs = <<>> THEN <<>>
    ELSE InsertByKey(Head(cs), SortByKey(Tail(cs)))

SortByKey(cs) ==
    IF cs = <<>> THEN <<>>
    ELSE InsertByKey(cs[Len(cs)], SortByKey(SubSeq(cs, 1, Len(cs) - 1)))

\* the loop builds the list `filtered`; filtered.sort(key=sort_key) then
\* sorts that one list
filter_and_sort_cases(cs, crit, n) ==
    CHOOSE sorted \in { SortByKey(kept) : kept \in {FilterLoop(cs, crit, n)} } : TRUE

(***************************************************************************)
(* Inputs                                                                  *)
(***************************************************************************)
S_John  == <<"J","o","h","n">>
S_J     == <<"J">>
S_Smith == <<"S","m","i","t","h">>
S_Lee   == <<"L","e","e">>

S_Open    == <<"O","p","e","n">>
S_Closed  == <<"C","l","o","s","e","d">>
S_Unknown == <<"U","n","k","n","o","w","n">>
S_PENDING == <<"P","E","N","D","I","N","G">>

\* "John A. Smith"
P_Full == <<"J","o","h","n"," ","A","."," ","S","m","i","t","h">>
\* "J. Smith et al."
P_InitialDot == <<"J","."," ","S","m","i","t","h"," ","e","t"," ","a","l",".">>
\* "J Smith"
P_Initial == <<"J"," ","S","m","i","t","h">>
\* "John Doe"
P_NoLast == <<"J","o","h","n"," ","D","o","e">>
\* "SMITH, LEE"
P_Middle == <<"S","M","I","T","H",","," ","L","E","E">>
\* "Smith v. Bank"
P_LastOnly == <<"S","m","i","t","h"," ","v","."," ","B","a","n","k">>

D_Empty == FilingDate("empty", 0, 0, 0)
D_NA    == FilingDate("na", 0, 0, 0)
D_Text  == FilingDate("text", 0, 0, 0)
D_2024  == FilingDate("mdy", 2024, 6, 1)
D_2023  == FilingDate("mdy", 2023, 1, 1)
D_Nov5  == FilingDate("mdy", 2021, 11, 5)
D_Nov4  == FilingDate("mdy", 2021, 11, 4)
D_Nov3  == FilingDate("mdy", 2021, 11, 3)
D_Nov2  == FilingDate("mdy", 2021, 11, 2)
D_2019  == FilingDate("mdy", 2019, 5, 5)
D_2019Z == FilingDate("isoz", 2019, 5, 5)

CourtCase(case_type, filing_date, status, county, parties) ==
    [case_type |-> case_type, filing_date |-> filing_date, status |-> status,
     county |-> county, parties |-> parties]

SearchCriteria(first_name, last_name, middle_name, county) ==
    [first_name |-> first_name, last_name |-> last_name,
     middle_name |-> middle_name, county |-> county]

\* the reference clocks: 3 November 2026 at midnight and at noon
Clocks == { [y |-> 2026, m |-> 11, d |-> 3, h |-> 0],
            [y |-> 2026, m |-> 11, d |-> 3, h |-> 12] }

AllCaseTypes == {"Civil", "Foreclosure", "Family", "Criminal", "Criminal Felony",
                 "Criminal Misdemeanor", "Traffic"}
AllFilingDates == {D_Empty, D_NA, D_Text, D_2024, D_2023, D_Nov5, D_Nov4,
                   D_Nov3, D_Nov2, D_2019, D_2019Z}
AllParties == {P_Full, P_InitialDot, P_Initial, P_NoLast, P_Middle, P_LastOnly}

\* cases that vary one field at a time around a kept case
CaseUniverse ==
    { CourtCase(t, D_2024, S_Open, "Miami-Dade", P_Full) : t \in AllCaseTypes }
    \cup { CourtCase("Civil", fd, S_Open, "Miami-Dade", P_Full) : fd \in AllFilingDates }
    \cup { CourtCase("Civil", fd, S_Closed, "Miami-Dade", P_Full) :
              fd \in {D_2024, D_2023, D_Text, D_NA} }
    \cup { CourtCase("Civil", D_2023, S_Open, "Miami-Dade", p) : p \in AllParties }
    \cup { CourtCase("Civil", D_2024, S_Unknown, "Miami-Dade", P_Full),
           CourtCase("Civil", D_NA, S_PENDING, "Miami-Dade", P_Full) }

FilterCriteria ==
    { SearchCriteria(S_John, S_Smith, NoneStr, NoneStr),
      SearchCriteria(S_John, S_Smith, S_Lee, NoneStr),
      SearchCriteria(S_J, S_Smith, NoneStr, NoneStr) }

SeqsUpTo(S, n) == UNION { [1..k -> S] : k \in 0..n }

\* searched_counties of get_api_response: the county of the criteria,
\* title-cased, or the fixed list "Miami-Dade", "Broward", "New York"
searched_counties(crit) ==
    IF Len(crit.county) > 0
    THEN << Title(crit.county) >>
    ELSE << <<"M","i","a","m","i","-","D","a","d","e">>,
            <<"B","r","o","w","a","r","d">>,
            <<"N","e","w"," ","Y","o","r","k">> >>

\* the response counting as closed only the cases whose status reads CLOSED
get_api_response_ClosedByWord(cs, crit) ==
    LET is_open(c) == Upper(c.status) \in OPEN_STATUSES_UPPER
        open_cases == SelectSeq(cs, is_open)
        closed_cases == SelectSeq(cs, LAMBDA c : Upper(c.status) = <<"C","L","O","S","E","D">>)
    IN  [ summary |-> [ total_cases |-> Len(cs),
                        open_cases |-> Len(open_cases),
                        closed_cases |-> Len(closed_cases),
                        has_open_cases |-> Len(open_cases) > 0 ],
          cases |-> cs,
          metadata |-> [ searched_counties |-> searched_counties(crit),
                         exclusions |-> EXCLUDED_CASE_TYPES ] ]

get_api_response(cs, crit) ==
    LET is_open(c) == Upper(c.status) \in OPEN_STATUSES_UPPER
        open_cases == SelectSeq(cs, is_open)
        closed_cases == SelectSeq(cs, LAMBDA c : \A i \in 1..Len(open_cases) : open_cases[i] # c)
    IN  [ summary |-> [ total_cases |-> Len(cs),
                        open_cases |-> Len(open_cases),
                        closed_cases |-> Len(closed_cases),
                        has_open_cases |-> Len(open_cases) > 0 ],
          cases |-> cs,
          metadata |-> [ searched_counties |-> searched_counties(crit),
                         exclusions |-> EXCLUDED_CASE_TYPES ] ]

(***************************************************************************)
(* SpecFilter: _filter_and_sort_cases applied to one input                 *)
(***************************************************************************)
OrchIdle ==
    /\ pc = "start" /\ idx = 0 /\ all_cases = <<>> /\ calls = <<>>
    /\ ny_mode = "none" /\ attempt = 0 /\ ny_outcomes = <<>> /\ ny_slept = <<>>
    /\ response = <<>>

NormIdle == raw_record = <<>> /\ parsed = <<>> /\ norm_pc = "raw"

\* no browser session is open and no job was started
SessIdle == session = <<>>

JobsIdle == jobs = <<>> /\ workers = <<>> /\ request = <<>> /\ reply = <<>>

InitFilter ==
    /\ criteria \in FilterCriteria
    /\ now \in Clocks
    /\ cases \in SeqsUpTo(CaseUniverse, MaxCases)
    /\ filtered = <<>>
    /\ fs_pc = "input"
    /\ OrchIdle
    /\ playwright_available = TRUE
    /\ NormIdle
    /\ SessIdle
    /\ JobsIdle

ApplyFilterAndSort ==
    /\ UNCHANGED auxVars
    /\ fs_pc = "input"
    /\ filtered' = filter_and_sort_cases(cases, criteria, now)
    /\ fs_pc' = "applied"
    /\ UNCHANGED <<criteria, now, cases>>
    /\ UNCHANGED orchVars

\* _filter_and_sort_cases applied to its own output, same criteria and clock
ReapplyFilterAndSort ==
    /\ UNCHANGED auxVars
    /\ fs_pc = "applied"
    /\ cases' = filtered
    /\ filtered' = filter_and_sort_cases(filtered, criteria, now)
    /\ fs_pc' = "reapplied"
    /\ UNCHANGED <<criteria, now>>
    /\ UNCHANGED orchVars

\* get_api_response applied to the drawn list
ApplyGetApiResponse ==
    /\ fs_pc = "input"
    /\ response' = << get_api_response(cases, criteria) >>
    /\ fs_pc' = "responded"
    /\ UNCHANGED <<criteria, now, cases, filtered, playwright_available>>
    /\ UNCHANGED <<normVars, sessVars, jobVars>>
    /\ UNCHANGED orchVars

NextFilter ==
    \/ ApplyFilterAndSort
    \/ ReapplyFilterAndSort
    \/ ApplyGetApiResponse

SpecFilter == InitFilter /\ [][NextFilter]_vars

(***************************************************************************)
(* search_court_records and the adapters                                   *)
(***************************************************************************)
K_miami_dade == <<"m","i","a","m","i","-","d","a","d","e">>
K_broward    == <<"b","r","o","w","a","r","d">>
K_new_york   == <<"n","e","w","-","y","o","r","k">>

\* COUNTY_SCRAPERS, in insertion order
COUNTY_SCRAPERS == <<K_miami_dade, K_broward, K_new_york>>

RegistryKeys == { COUNTY_SCRAPERS[i] : i \in 1..Len(COUNTY_SCRAPERS) }

\* the county_name property of each scraper class
county_name(key) ==
    IF key = K_miami_dade THEN "Miami-Dade"
    ELSE IF key = K_broward THEN "Broward"
    ELSE "New York"

\* county_key = county.lower().strip() in get_scraper
county_key(county) == Strip(Lower(county))

\* what an adapter's constructor or search() may raise: the two classes the
\* handlers name, and "Error" for any other Exception (a browser launch failure)
AdapterExceptions == {"ScraperError", "NotImplementedError", "Error"}

\* the except clauses of the single-county branch
SingleCatches(exc) == exc \in {"ValueError", "ScraperError", "NotImplementedError"}

\* every class above derives from Exception
ExceptionSubclasses == AdapterExceptions \cup {"ValueError"}

\* the statewide handlers without the final `except Exception`
StatewideCatches_NamedOnly(exc) == exc \in {"NotImplementedError", "ScraperError"}

\* the except clauses of the statewide loop, `except Exception` last
StatewideCatches(exc) ==
    exc \in {"NotImplementedError", "ScraperError"} \/ exc \in ExceptionSubclasses

\* time.sleep(2) between counties
COUNTY_DELAY == 2

\* one attempt more than the code's bound
MAX_RETRIES_Four == 3 + 1

\* delays that double: 10, 20, 40
BACKOFF_TIMES_Doubling == <<10, 20, 40>>

MAX_RETRIES == 3
BACKOFF_TIMES == <<10, 30, 90>>

\* how one attempt of the New York loop can end
AttemptOutcomes == {"blocked", "timeout", "error", "form_not_found", "parsed"}

\* the retry test off by one
HasRetryLeft_OffByOne(a) == a < MAX_RETRIES

\* `if attempt < self.MAX_RETRIES - 1`
HasRetryLeft(a) == a < MAX_RETRIES - 1

\* the raw cases an adapter can extract: its own county on every record
RawShapes(county) ==
    { CourtCase("Civil", D_2023, S_Open, county, P_Full),
      CourtCase("Civil", D_2024, S_Open, county, P_Full),
      CourtCase("Civil", D_2024, S_Closed, county, P_Full),
      CourtCase("Civil", D_2019, S_Closed, county, P_Full) }

RawLists(key) == SeqsUpTo(RawShapes(county_name(key)), MaxRaw)

Counties == { NoneStr,
              <<"M","i","a","m","i","-","D","a","d","e">>,
              <<"b","r","o","w","a","r","d"," ">>,
              K_new_york,
              <<"o","r","a","n","g","e">> }

OrchCriteria ==
    { SearchCriteria(f, S_Smith, NoneStr, c) : f \in {S_John, NoneStr}, c \in Counties }

Call(key, outcome, exc, returned, slept) ==
    [county |-> key, outcome |-> outcome, exc |-> exc, cases |-> returned,
     slept |-> slept]

Init ==
    /\ criteria \in OrchCriteria
    /\ now \in {[y |-> 2026, m |-> 11, d |-> 3, h |-> 12]}
    /\ cases = <<>>
    /\ filtered = <<>>
    /\ fs_pc = "input"
    /\ OrchIdle
    /\ playwright_available \in BOOLEAN
    /\ NormIdle
    /\ SessIdle
    /\ JobsIdle

\* the branch `if criteria.county:` with a county get_scraper does not know:
\* ValueError, caught, empty result
SingleUnknownCounty ==
    /\ UNCHANGED auxVars
    /\ pc = "start"
    /\ Len(criteria.county) > 0
    /\ county_key(criteria.county) \notin RegistryKeys
    /\ IF SingleCatches("ValueError") THEN pc' = "done" ELSE pc' = "raised"
    /\ UNCHANGED <<criteria, now, idx, all_cases, calls, ny_mode, attempt,
                   ny_outcomes, ny_slept>>
    /\ UNCHANGED fsVars

\* single county, Miami-Dade or Broward: search() returns its filtered list
SingleAdapterReturns ==
    /\ UNCHANGED auxVars
    /\ pc = "start"
    /\ playwright_available
    /\ Len(criteria.county) > 0
    /\ county_key(criteria.county) \in {K_miami_dade, K_broward}
    /\ \E raw \in RawLists(county_key(criteria.county)) :
         LET out == filter_and_sort_cases(raw, criteria, now)
         IN  /\ cases' = raw
             /\ filtered' = out
             /\ fs_pc' = "applied"
             /\ all_cases' = all_cases \o out
             /\ calls' = Append(calls,
                    Call(county_key(criteria.county), "returned", "none", out, 0))
    /\ pc' = "done"
    /\ UNCHANGED <<criteria, now, idx, ny_mode, attempt, ny_outcomes, ny_slept>>

\* single county: the constructor or search() raises
SingleAdapterRaises ==
    /\ UNCHANGED auxVars
    /\ pc = "start"
    /\ playwright_available
    /\ Len(criteria.county) > 0
    /\ county_key(criteria.county) \in RegistryKeys
    /\ \E exc \in AdapterExceptions :
         /\ calls' = Append(calls,
                Call(county_key(criteria.county), "raised", exc, <<>>, 0))
         /\ IF SingleCatches(exc) THEN pc' = "done" ELSE pc' = "raised"
    /\ UNCHANGED <<criteria, now, idx, all_cases, ny_mode, attempt,
                   ny_outcomes, ny_slept>>
    /\ UNCHANGED fsVars

\* single county without Playwright: search() prints and returns []
SingleAdapterUnavailable ==
    /\ UNCHANGED auxVars
    /\ pc = "start"
    /\ ~playwright_available
    /\ Len(criteria.county) > 0
    /\ county_key(criteria.county) \in RegistryKeys
    /\ calls' = Append(calls,
           Call(county_key(criteria.county), "returned", "none", <<>>, 0))
    /\ pc' = "done"
    /\ UNCHANGED <<criteria, now, idx, all_cases, ny_mode, attempt,
                   ny_outcomes, ny_slept>>
    /\ UNCHANGED fsVars

\* single county, New York: search() enters the retry loop
SingleNewYorkEnter ==
    /\ UNCHANGED auxVars
    /\ pc = "start"
    /\ playwright_available
    /\ Len(criteria.county) > 0
    /\ county_key(criteria.county) = K_new_york
    /\ pc' = "ny_loop"
    /\ ny_mode' = "single"
    /\ attempt' = 0
    /\ UNCHANGED <<criteria, now, idx, all_cases, calls, ny_outcomes, ny_slept>>
    /\ UNCHANGED fsVars

\* the else branch: start the loop over COUNTY_SCRAPERS.items()
StatewideBegin ==
    /\ UNCHANGED auxVars
    /\ pc = "start"
    /\ Len(criteria.county) = 0
    /\ pc' = "loop"
    /\ idx' = 1
    /\ UNCHANGED <<criteria, now, all_cases, calls, ny_mode, attempt,
                   ny_outcomes, ny_slept>>
    /\ UNCHANGED fsVars

\* one loop iteration, Miami-Dade or Broward, search() returns:
\* extend all_cases, sleep 2 seconds, next county
StatewideAdapterReturns ==
    /\ UNCHANGED auxVars
    /\ pc = "loop"
    /\ playwright_available
    /\ idx <= Len(COUNTY_SCRAPERS)
    /\ COUNTY_SCRAPERS[idx] \in {K_miami_dade, K_broward}
    /\ \E raw \in RawLists(COUNTY_SCRAPERS[idx]) :
         LET out == filter_and_sort_cases(raw, criteria, now)
         IN  /\ cases' = raw
             /\ filtered' = out
             /\ fs_pc' = "applied"
             /\ all_cases' = all_cases \o out
             /\ calls' = Append(calls,
                    Call(COUNTY_SCRAPERS[idx], "returned", "none", out, COUNTY_DELAY))
    /\ idx' = idx + 1
    /\ UNCHANGED <<criteria, now, pc, ny_mode, attempt, ny_outcomes, ny_slept>>

\* one loop iteration whose constructor or search() raises: the handler
\* prints and the loop goes on, without the sleep
StatewideAdapterRaises ==
    /\ UNCHANGED auxVars
    /\ pc = "loop"
    /\ playwright_available
    /\ idx <= Len(COUNTY_SCRAPERS)
    /\ \E exc \in AdapterExceptions :
         /\ calls' = Append(calls, Call(COUNTY_SCRAPERS[idx], "raised", exc, <<>>, 0))
         /\ IF StatewideCatches(exc)
            THEN pc' = pc /\ idx' = idx + 1
            ELSE pc' = "raised" /\ idx' = idx
    /\ UNCHANGED <<criteria, now, all_cases, ny_mode, attempt, ny_outcomes, ny_slept>>
    /\ UNCHANGED fsVars

\* one loop iteration without Playwright: search() prints and returns [],
\* the orchestrator extends all_cases with it and sleeps
StatewideAdapterUnavailable ==
    /\ UNCHANGED auxVars
    /\ pc = "loop"
    /\ ~playwright_available
    /\ idx <= Len(COUNTY_SCRAPERS)
    /\ calls' = Append(calls,
           Call(COUNTY_SCRAPERS[idx], "returned", "none", <<>>, COUNTY_DELAY))
    /\ idx' = idx + 1
    /\ UNCHANGED <<criteria, now, pc, all_cases, ny_mode, attempt,
                   ny_outcomes, ny_slept>>
    /\ UNCHANGED fsVars

\* the loop iteration of New York: search() enters the retry loop
StatewideNewYorkEnter ==
    /\ UNCHANGED auxVars
    /\ pc = "loop"
    /\ playwright_available
    /\ idx <= Len(COUNTY_SCRAPERS)
    /\ COUNTY_SCRAPERS[idx] = K_new_york
    /\ pc' = "ny_loop"
    /\ ny_mode' = "statewide"
    /\ attempt' = 0
    /\ UNCHANGED <<criteria, now, idx, all_cases, calls, ny_outcomes, ny_slept>>
    /\ UNCHANGED fsVars

\* one iteration of `for attempt in range(self.MAX_RETRIES)`, with what
\* follows it when the loop ends.  pc "ny_return" is the return of
\* _search_civil_records, `cases` holding the returned list.
\*   parsed, form_not_found: return from inside the loop
\*   blocked: back off and `continue`, or `return []` on the last attempt
\*   timeout, error (the except clause): back off or print, then the next
\*     iteration; past the last one the loop ends at the final `return []`
NewYorkAttempt ==
    /\ UNCHANGED auxVars
    /\ pc = "ny_loop"
    /\ attempt < MAX_RETRIES
    /\ \E outcome \in AttemptOutcomes, raw \in RawLists(K_new_york) :
         /\ outcome # "parsed" => raw = <<>>
         /\ ny_outcomes' = Append(ny_outcomes, outcome)
         /\ IF outcome \in {"parsed", "form_not_found"}
            THEN /\ cases' = raw
                 /\ pc' = "ny_return"
                 /\ UNCHANGED <<attempt, ny_slept>>
            ELSE IF outcome = "blocked" /\ ~HasRetryLeft(attempt)
            THEN /\ cases' = <<>>
                 /\ pc' = "ny_return"
                 /\ UNCHANGED <<attempt, ny_slept>>
            ELSE /\ ny_slept' = IF HasRetryLeft(attempt)
                                THEN Append(ny_slept, BACKOFF_TIMES[attempt + 1])
                                ELSE ny_slept
                 /\ IF attempt + 1 < MAX_RETRIES
                    THEN attempt' = attempt + 1 /\ pc' = pc /\ cases' = cases
                    ELSE attempt' = attempt /\ pc' = "ny_return" /\ cases' = <<>>
    /\ fs_pc' = "input"
    /\ UNCHANGED <<criteria, now, filtered, idx, all_cases, calls, ny_mode>>

\* NewYorkScraper.search filters and sorts what the loop returned and
\* returns to search_court_records, which extends all_cases and, in the
\* statewide loop, sleeps and moves to the next county
NewYorkSearchReturns ==
    /\ UNCHANGED auxVars
    /\ pc = "ny_return"
    /\ \E out \in {filter_and_sort_cases(cases, criteria, now)} :
           /\ filtered' = out
           /\ fs_pc' = "applied"
           /\ all_cases' = all_cases \o out
           /\ calls' = Append(calls,
                  Call(K_new_york, "returned", "none", out,
                       IF ny_mode = "statewide" THEN COUNTY_DELAY ELSE 0))
    /\ IF ny_mode = "statewide"
       THEN pc' = "loop" /\ idx' = idx + 1
       ELSE pc' = "done" /\ idx' = idx
    /\ ny_mode' = "none"
    /\ UNCHANGED <<criteria, now, cases, attempt, ny_outcomes, ny_slept>>

\* the loop is exhausted: `return all_cases`
StatewideReturn ==
    /\ UNCHANGED auxVars
    /\ pc = "loop"
    /\ idx > Len(COUNTY_SCRAPERS)
    /\ pc' = "done"
    /\ UNCHANGED <<criteria, now, idx, all_cases, calls, ny_mode, attempt,
                   ny_outcomes, ny_slept>>
    /\ UNCHANGED fsVars

\* the caller hands the returned list to get_api_response
GetApiResponse ==
    /\ pc = "done"
    /\ response' = << get_api_response(all_cases, criteria) >>
    /\ pc' = "responded"
    /\ UNCHANGED <<criteria, now, idx, all_cases, calls, ny_mode, attempt,
                   ny_outcomes, ny_slept, playwright_available>>
    /\ UNCHANGED fsVars
    /\ UNCHANGED normVars
    /\ UNCHANGED <<sessVars, jobVars>>

Next ==
    \/ SingleUnknownCounty
    \/ SingleAdapterReturns
    \/ SingleAdapterRaises
    \/ SingleAdapterUnavailable
    \/ SingleNewYorkEnter
    \/ StatewideBegin
    \/ StatewideAdapterReturns
    \/ StatewideAdapterRaises
    \/ StatewideAdapterUnavailable
    \/ StatewideNewYorkEnter
    \/ NewYorkAttempt
    \/ NewYorkSearchReturns
    \/ StatewideReturn
    \/ GetApiResponse

Spec == Init /\ [][Next]_vars

\* one thread runs the search: a step that can be taken is taken
FairSpec == Spec /\ WF_vars(Next)

(***************************************************************************)
(* Extraction: status normalization and case-type classification           *)
(***************************************************************************)
\* the projection of a CourtCase on the fields the extraction functions
\* compute from site text
ExtractedCase(case_type, status, county) ==
    [case_type |-> case_type, status |-> status, county |-> county]

\* the characters of case_type_default; every call site passes "Civil"
TypeText(t) == IF t = "Civil" THEN <<"C","i","v","i","l">> ELSE <<>>

\* words: CLOSED, DISPOSED
ClosedWords == { <<"C","L","O","S","E","D">>, <<"D","I","S","P","O","S","E","D">> }
\* words: OPEN, ACTIVE, PENDING
OpenWords == { <<"O","P","E","N">>, <<"A","C","T","I","V","E">>, <<"P","E","N","D","I","N","G">> }

\* _parse_miami_dade_card: status from the upper-cased "Case Status" field
miami_dade_card_status(field) ==
    LET status_text == Upper(field)
    IN  IF AnyIn(ClosedWords, status_text) THEN S_Closed
        ELSE IF AnyIn(OpenWords, status_text) THEN S_Open
        ELSE IF status_text # <<>> THEN Title(status_text)
        ELSE S_Unknown

\* _parse_table_row of Miami-Dade: status from the lower-cased row text
miami_dade_row_status(cell_texts) ==
    LET full_text == Lower(Join(cell_texts, <<" ">>))
    IN  IF Contains(<<"c","l","o","s","e","d">>, full_text) THEN S_Closed
        ELSE IF AnyIn({<<"o","p","e","n">>, <<"a","c","t","i","v","e">>}, full_text) THEN S_Open
        ELSE S_Unknown

\* "Normalize status" of _parse_kendo_data and _parse_broward_table_row
broward_status(status_raw) ==
    LET status_upper == Upper(status_raw)
    IN  IF AnyIn(ClosedWords, status_upper) THEN S_Closed
        ELSE IF AnyIn(OpenWords, status_upper) THEN S_Open
        ELSE IF status_raw # <<>> THEN Title(status_raw) ELSE S_Unknown

\* words: OPEN, CLOSED, ACTIVE, PENDING, DISPOSED, DECIDED
NewYorkStatusWords ==
    { <<"O","P","E","N">>, <<"C","L","O","S","E","D">>, <<"A","C","T","I","V","E">>, <<"P","E","N","D","I","N","G">>, <<"D","I","S","P","O","S","E","D">>, <<"D","E","C","I","D","E","D">> }

\* the test that makes a cell the case number in _parse_ny_table_row
IsCaseNumberCell(text) ==
    HasFourDigits(text) /\ (Contains(<<"-">>, text) \/ Contains(<<"/">>, text))

\* the loop `for i, text in enumerate(cell_texts)` of _parse_ny_table_row,
\* for the variable status
RECURSIVE new_york_row_loop(_, _)
new_york_row_loop(cell_texts, status) ==
    IF cell_texts = <<>> THEN status
    ELSE LET text == Head(cell_texts)
         IN  IF IsCaseNumberCell(text) \/ HasDatePattern(text)
             THEN new_york_row_loop(Tail(cell_texts), status)
             ELSE IF AnyIn(NewYorkStatusWords, Upper(text))
             THEN new_york_row_loop(Tail(cell_texts), Title(text))
             ELSE new_york_row_loop(Tail(cell_texts), status)

\* status of _parse_ny_table_row: the loop, then the positional fallback
new_york_row_status(cell_texts) ==
    LET status == new_york_row_loop(cell_texts, <<>>)
    IN  IF status = <<>> /\ Len(cell_texts) >= 3 THEN cell_texts[3] ELSE status

\* status of _parse_ny_container
new_york_container_status(text) ==
    LET lowered == Lower(text)
    IN  IF AnyIn({<<"c","l","o","s","e","d">>, <<"d","i","s","p","o","s","e","d">>, <<"d","e","c","i","d","e","d">>}, lowered) THEN S_Closed
        ELSE IF AnyIn({<<"o","p","e","n">>, <<"a","c","t","i","v","e">>, <<"p","e","n","d","i","n","g">>}, lowered) THEN S_Open
        ELSE S_Unknown

\* an if/elif chain of keyword tests as its ordered list of branches
Rule(terms, result) == [terms |-> terms, result |-> result]

\* the chain run from the bottom: the last matching branch wins
FirstMatch_LastWins(rules, text, default) ==
    LET hit(i) == AnyIn(rules[i].terms, text)
    IN  IF \E i \in 1..Len(rules) : hit(i)
        THEN rules[CHOOSE i \in 1..Len(rules) :
                       hit(i) /\ \A j \in (i + 1)..Len(rules) : ~hit(j)].result
        ELSE default

\* the chain run from the top: the first branch whose test holds returns
FirstMatch(rules, text, default) ==
    LET hit(i) == AnyIn(rules[i].terms, text)
    IN  IF \E i \in 1..Len(rules) : hit(i)
        THEN rules[CHOOSE i \in 1..Len(rules) :
                       hit(i) /\ \A j \in 1..(i - 1) : ~hit(j)].result
        ELSE default

\* the branches of _classify_case_type_from_code
MiamiDadeRules ==
    << Rule({<<"C","F">>, <<"C","T","C">>}, "Criminal Felony"),
       Rule({<<"C","M">>, <<"M","M">>}, "Criminal Misdemeanor"),
       Rule({<<"F","A">>, <<"D","R">>, <<"F","A","M","I","L","Y">>}, "Family"),
       Rule({<<"P","R">>, <<"P","R","O","B","A","T","E">>}, "Probate"),
       Rule({<<"C","A">>, <<"C","I","V","I","L">>}, "Civil"),
       Rule({<<"S","C">>, <<"S","M","A","L","L">>}, "Small Claims"),
       Rule({<<"T","R">>, <<"T","R","A","F","F","I","C">>}, "Traffic") >>

classify_case_type_from_code(case_type_code, section, default) ==
    LET code_upper == Upper(case_type_code \o section)
    IN  FirstMatch(MiamiDadeRules, code_upper, default)

\* the branches of _classify_broward_case_type
BrowardRules ==
    << Rule({<<"F","E","L","O","N","Y">>, <<"C","R","I","M","I","N","A","L">>}, "Criminal Felony"),
       Rule({<<"M","I","S","D","E","M","E","A","N","O","R">>}, "Criminal Misdemeanor"),
       Rule({<<"F","A","M","I","L","Y">>, <<"D","I","V","O","R","C","E">>, <<"C","U","S","T","O","D","Y">>,
             <<"D","I","S","S","O","L","U","T","I","O","N">>}, "Family"),
       Rule({<<"T","R","A","F","F","I","C">>, <<"I","N","F","R","A","C","T","I","O","N">>}, "Traffic"),
       Rule({<<"F","O","R","E","C","L","O","S","U","R","E">>}, "Foreclosure"),
       Rule({<<"S","M","A","L","L"," ","C","L","A","I","M","S">>}, "Small Claims"),
       Rule({<<"P","R","O","B","A","T","E">>, <<"E","S","T","A","T","E">>,
             <<"A","D","M","I","N","I","S","T","R","A","T","I","O","N">>, <<"W","I","L","L">>}, "Probate"),
       Rule({<<"C","I","V","I","L">>, <<"C","O","N","T","R","A","C","T">>, <<"N","E","G","L","I","G","E","N","C","E">>,
             <<"T","O","R","T">>}, "Civil"),
       Rule({<<"P","E","T","I","T","I","O","N">>, <<"C","L","A","I","M">>}, "Civil") >>

classify_broward_case_type(case_type_raw, default) ==
    FirstMatch(BrowardRules, Upper(case_type_raw), default)

\* the keyword branches of _classify_ny_case_type
NewYorkRules ==
    << Rule({<<"C","O","M","M","E","R","C","I","A","L">>, <<"B","U","S","I","N","E","S","S">>, <<"C","O","R","P","O","R","A","T","E">>,
             <<"C","O","M","P","A","N","Y">>, <<"L","L","C">>, <<"I","N","C">>}, "Commercial"),
       Rule({<<"C","O","N","T","R","A","C","T">>, <<"B","R","E","A","C","H">>, <<"A","G","R","E","E","M","E","N","T">>}, "Contract"),
       Rule({<<"I","N","S","U","R","A","N","C","E">>, <<"I","N","S","U","R","E","R">>, <<"C","L","A","I","M">>}, "Insurance"),
       Rule({<<"D","E","B","T">>, <<"C","O","L","L","E","C","T","I","O","N">>, <<"C","R","E","D","I","T","O","R">>}, "Debt Collection"),
       Rule({<<"R","E","A","L"," ","E","S","T","A","T","E">>, <<"P","R","O","P","E","R","T","Y">>,
             <<"F","O","R","E","C","L","O","S","U","R","E">>}, "Real Estate"),
       Rule({<<"M","A","L","P","R","A","C","T","I","C","E">>, <<"P","R","O","F","E","S","S","I","O","N","A","L">>}, "Professional Malpractice") >>

\* the last branch of _classify_ny_case_type and its fall-through
new_york_civil_branch(current_type, all_text) ==
    IF current_type = "Civil"
         \/ AnyIn({<<"C","I","V","I","L">>, <<"L","A","W","S","U","I","T">>, <<"A","C","T","I","O","N">>}, all_text)
    THEN "Civil"
    ELSE current_type

classify_ny_case_type(current_type, parties, cell_texts) ==
    LET all_text == Upper(TypeText(current_type) \o <<" ">> \o parties \o <<" ">>
                              \o Join(cell_texts, <<" ">>))
    IN  FirstMatch(NewYorkRules, all_text,
                   new_york_civil_branch(current_type, all_text))

\* any(cell_texts)
AnyCell(cell_texts) == \E i \in 1..Len(cell_texts) : cell_texts[i] # <<>>

\* _parse_miami_dade_card on the fields of one result card
parse_miami_dade_card(card, case_type_default) ==
    IF card.case_number = <<>> \/ card.case_number = S_Unknown THEN <<>>
    ELSE << ExtractedCase(
              classify_case_type_from_code(card.case_type_code, card.section,
                                           case_type_default),
              miami_dade_card_status(card.case_status),
              "Miami-Dade") >>

\* _parse_table_row of Miami-Dade
parse_table_row(cell_texts, case_type_default) ==
    IF ~AnyCell(cell_texts) THEN <<>>
    ELSE << ExtractedCase(case_type_default, miami_dade_row_status(cell_texts),
                          "Miami-Dade") >>

\* one item of the loop of _parse_kendo_data
parse_kendo_item(item, case_type_default) ==
    IF item.CaseNumber = <<>> THEN <<>>
    ELSE LET case_type_raw == Strip(item.CourtType \o <<" ">> \o item.CaseUTypeDesc)
             status_raw == IF item.DispositionCode # <<>>
                           THEN item.DispositionCode ELSE item.CaseStatusDesc
         IN  << ExtractedCase(
                   classify_broward_case_type(case_type_raw, case_type_default),
                   broward_status(status_raw),
                   "Broward") >>

\* _parse_broward_table_row
parse_broward_table_row(cell_texts, case_type_default) ==
    IF ~AnyCell(cell_texts) THEN <<>>
    ELSE LET case_number == IF Len(cell_texts) > 0 THEN cell_texts[1] ELSE <<>>
             case_type_raw == IF Len(cell_texts) > 2 THEN cell_texts[3]
                              ELSE TypeText(case_type_default)
             status_raw == IF Len(cell_texts) > 4 THEN cell_texts[5] ELSE S_Unknown
         IN  IF case_number = <<>> THEN <<>>
             ELSE << ExtractedCase(
                       classify_broward_case_type(case_type_raw, case_type_default),
                       broward_status(status_raw),
                       "Broward") >>

\* _parse_ny_table_row; the case number is a matching cell or the first cell
parse_ny_table_row(cell_texts, case_type_default) ==
    IF ~AnyCell(cell_texts) THEN <<>>
    ELSE LET has_number == \/ \E i \in 1..Len(cell_texts) : IsCaseNumberCell(cell_texts[i])
                           \/ cell_texts[1] # <<>>
             parties == IF Len(cell_texts) >= 4 THEN cell_texts[4] ELSE <<>>
         IN  IF ~has_number THEN <<>>
             ELSE << ExtractedCase(
                       classify_ny_case_type(case_type_default, parties, cell_texts),
                       new_york_row_status(cell_texts),
                       "New York") >>

\* re.search(r'\d{4,}[\-/]\d+', text)
HasCaseNumber(text) ==
    \E j \in 5..(Len(text) - 1) :
        /\ text[j] \in {"-", "/"}
        /\ IsDigit(text[j + 1])
        /\ \A k \in (j - 4)..(j - 1) : IsDigit(text[k])

\* _parse_ny_container on the text of one container
parse_ny_container(text, case_type_default) ==
    IF ~HasCaseNumber(text) THEN <<>>
    ELSE << ExtractedCase(
              classify_ny_case_type(case_type_default, text, <<>>),
              new_york_container_status(text),
              "New York") >>

\* texts a site shows as the status of a case:
\*   "", "Open", "CLOSED", "Disposed", "Pending", "Dismissed", "transferred"
StatusTexts ==
    { <<>>, <<"O","p","e","n">>, <<"C","L","O","S","E","D">>, <<"D","i","s","p","o","s","e","d">>, <<"P","e","n","d","i","n","g">>,
      <<"D","i","s","m","i","s","s","e","d">>, <<"t","r","a","n","s","f","e","r","r","e","d">> }

\* "2024-12"
N_Case == <<"2","0","2","4","-","1","2">>
\* "06/01/2024"
N_Date == <<"0","6","/","0","1","/","2","0","2","4">>
\* "Smith v Bank"
N_Parties == <<"S","m","i","t","h"," ","v"," ","B","a","n","k">>

\* "FORECLOSURE ACTION", "ACTION FORECLOSURE", "PROBATE FORECLOSURE",
\* "CIVIL TRAFFIC", "SMALL CLAIMS", "CLAIMS SMALL"
TwoWordTypes ==
    { <<"F","O","R","E","C","L","O","S","U","R","E"," ","A","C","T","I","O","N">>,
      <<"A","C","T","I","O","N"," ","F","O","R","E","C","L","O","S","U","R","E">>,
      <<"P","R","O","B","A","T","E"," ","F","O","R","E","C","L","O","S","U","R","E">>,
      <<"C","I","V","I","L"," ","T","R","A","F","F","I","C">>,
      <<"S","M","A","L","L"," ","C","L","A","I","M","S">>,
      <<"C","L","A","I","M","S"," ","S","M","A","L","L">> }

\* result cards of the Miami-Dade portal: the data-id fields
\*   codes "", "CA", "PR", "CC", "TR"; sections "", "Miami", "CA - Downtown Miami"
MiamiDadeCards ==
    { [path |-> "miami_dade_card", case_number |-> n, case_status |-> s,
       case_type_code |-> c, section |-> x] :
         n \in {<<>>, N_Case}, s \in StatusTexts,
         c \in {<<>>, <<"C","A">>, <<"P","R">>, <<"C","C">>, <<"T","R">>} \cup TwoWordTypes,
         x \in {<<>>, <<"M","i","a","m","i">>, <<"C","A"," ","-"," ","D","o","w","n","t","o","w","n"," ","M","i","a","m","i">>} }

\* rows of a Miami-Dade result table, three cells or more
MiamiDadeRows ==
    { [path |-> "miami_dade_row", cell_texts |-> <<N_Case, N_Parties, N_Date, s>>] :
         s \in StatusTexts }
    \cup { [path |-> "miami_dade_row", cell_texts |-> <<<<>>, <<>>, <<>>>>] }

\* items of the Broward grid's data source
\*   DispositionCode "", "Dismissed"; CourtType "", "Civil", "Probate", "Traffic";
\*   CaseUTypeDesc "", "Foreclosure", "Contract" and the two-word texts
BrowardGridItems ==
    { [path |-> "broward_grid", CaseNumber |-> n, DispositionCode |-> d,
       CaseStatusDesc |-> s, CourtType |-> c, CaseUTypeDesc |-> u] :
         n \in {<<>>, N_Case}, d \in {<<>>, <<"D","i","s","m","i","s","s","e","d">>}, s \in StatusTexts,
         c \in {<<>>, <<"C","i","v","i","l">>, <<"P","r","o","b","a","t","e">>, <<"T","r","a","f","f","i","c">>},
         u \in {<<>>, <<"F","o","r","e","c","l","o","s","u","r","e">>, <<"C","o","n","t","r","a","c","t">>} \cup TwoWordTypes }

\* rows of the Broward result table, which the caller hands over when they
\* have five cells or more: number, parties, type, date, status
BrowardRows ==
    { [path |-> "broward_row", cell_texts |-> <<N_Case, N_Parties, t, N_Date, s>>] :
         t \in TwoWordTypes \cup {<<"E","v","i","c","t","i","o","n">>}, s \in StatusTexts }
    \cup { [path |-> "broward_row", cell_texts |-> c] :
              c \in { <<<<>>, N_Parties, <<>>, N_Date, <<>>>>,
                      <<<<>>, <<>>, <<>>, <<>>, <<>>>> } }

\* parties "John Smith", "Smith v Bank LLC", "REAL ESTATE", "ESTATE REAL",
\* "FORECLOSURE ACTION"
NewYorkParties ==
    { <<"J","o","h","n"," ","S","m","i","t","h">>, <<"S","m","i","t","h"," ","v"," ","B","a","n","k"," ","L","L","C">>,
      <<"R","E","A","L"," ","E","S","T","A","T","E">>, <<"E","S","T","A","T","E"," ","R","E","A","L">>,
      <<"F","O","R","E","C","L","O","S","U","R","E"," ","A","C","T","I","O","N">> }

\* rows of the New York result table, which the caller hands over when they
\* have three cells or more
NewYorkRows ==
    { [path |-> "new_york_row", cell_texts |-> <<N_Case, N_Date, s, p>>] :
         s \in StatusTexts \cup {<<"P","e","n","d","i","n","g"," ","D","e","c","i","s","i","o","n">>}, p \in NewYorkParties }
    \cup { [path |-> "new_york_row", cell_texts |-> c] :
              c \in { <<N_Case, N_Parties, N_Date>>, <<N_Parties, N_Date, <<>>>>,
                      <<<<>>, <<>>, <<>>>> } }

\* result containers of the New York page, by their text
NewYorkContainers ==
    { [path |-> "new_york_container", text |-> t] :
         t \in { <<"2","0","2","4","-","1","2"," ","S","m","i","t","h"," ","v"," ","B","a","n","k"," ","c","l","o","s","e","d">>,
                 <<"2","0","2","4","-","1","2"," ","F","O","R","E","C","L","O","S","U","R","E"," ","A","C","T","I","O","N"," ","p","e","n","d","i","n","g">>,
                 <<"2","0","2","4","-","1","2"," ","E","S","T","A","T","E"," ","R","E","A","L">>,
                 <<"2","0","2","4","-","1","2"," ","J","o","h","n"," ","S","m","i","t","h">>,
                 <<"J","o","h","n"," ","S","m","i","t","h">> } }

RawRecords ==
    MiamiDadeCards \cup MiamiDadeRows \cup BrowardGridItems \cup BrowardRows
    \cup NewYorkRows \cup NewYorkContainers

(***************************************************************************)
(* SpecNormalize: one extraction function applied to one raw record        *)
(***************************************************************************)
InitNormalize ==
    /\ criteria = SearchCriteria(S_John, S_Smith, NoneStr, NoneStr)
    /\ now = [y |-> 2026, m |-> 11, d |-> 3, h |-> 12]
    /\ cases = <<>> /\ filtered = <<>> /\ fs_pc = "input"
    /\ OrchIdle
    /\ playwright_available = TRUE
    /\ raw_record \in RawRecords
    /\ parsed = <<>>
    /\ norm_pc = "raw"
    /\ SessIdle
    /\ JobsIdle

NormFrame ==
    /\ norm_pc' = "parsed"
    /\ UNCHANGED <<criteria, now, raw_record, playwright_available, response>>
    /\ UNCHANGED <<sessVars, jobVars>>
    /\ UNCHANGED fsVars
    /\ UNCHANGED orchVars

ParseMiamiDadeCard ==
    /\ norm_pc = "raw" /\ raw_record.path = "miami_dade_card"
    /\ parsed' = parse_miami_dade_card(raw_record, "Civil")
    /\ NormFrame

ParseMiamiDadeRow ==
    /\ norm_pc = "raw" /\ raw_record.path = "miami_dade_row"
    /\ parsed' = parse_table_row(raw_record.cell_texts, "Civil")
    /\ NormFrame

ParseBrowardGridItem ==
    /\ norm_pc = "raw" /\ raw_record.path = "broward_grid"
    /\ parsed' = parse_kendo_item(raw_record, "Civil")
    /\ NormFrame

ParseBrowardRow ==
    /\ norm_pc = "raw" /\ raw_record.path = "broward_row"
    /\ parsed' = parse_broward_table_row(raw_record.cell_texts, "Civil")
    /\ NormFrame

ParseNewYorkRow ==
    /\ norm_pc = "raw" /\ raw_record.path = "new_york_row"
    /\ parsed' = parse_ny_table_row(raw_record.cell_texts, "Civil")
    /\ NormFrame

ParseNewYorkContainer ==
    /\ norm_pc = "raw" /\ raw_record.path = "new_york_container"
    /\ parsed' = parse_ny_container(raw_record.text, "Civil")
    /\ NormFrame

NextNormalize ==
    \/ ParseMiamiDadeCard
    \/ ParseMiamiDadeRow
    \/ ParseBrowardGridItem
    \/ ParseBrowardRow
    \/ ParseNewYorkRow
    \/ ParseNewYorkContainer

SpecNormalize == InitNormalize /\ [][NextNormalize]_vars

(***************************************************************************)
(* backend/app.py: the job store, the run_search threads and the handlers  *)
(***************************************************************************)
\* most jobs started in one run
MaxJobs == 2

\* OPEN_STATUSES = {'open', 'active', 'pending'}
OPEN_STATUSES ==
    { <<"o","p","e","n">>, <<"a","c","t","i","v","e">>,
      <<"p","e","n","d","i","n","g">> }

\* COUNTIES = ['miami-dade', 'broward']
COUNTIES == <<K_miami_dade, K_broward>>

\* the entry start_search stores under a new job id; a result is <<>> for
\* None and << r >> for the dictionary r
JobEntry(status, message, result, error) ==
    [status |-> status, message |-> message, result |-> result, error |-> error]

\* the write goes to the newest job of the store
WriteJob_Newest(js, j, field, value) == [js EXCEPT ![Len(js)][field] = value]

\* jobs[job_id][field] = value
WriteJob(js, j, field, value) == [js EXCEPT ![j][field] = value]

\* browser = p.chromium.launch(headless=True): a new object for call k of
\* thread j
NewBrowser(j, k) == <<j, k>>

\* a handler that names two exception classes only
RunSearchCatches_NamedOnly(exc) == exc \in {"ScraperError", "NotImplementedError"}

\* `except Exception as e` of run_search
RunSearchCatches(exc) == exc \in ExceptionSubclasses

\* f'Searching {county.replace("-", " ").title()} County...'
SearchingMessage(county) ==
    IF county = K_miami_dade THEN "Searching Miami Dade County..."
    ELSE "Searching Broward County..."

\* the filtered lists scraper.search(criteria) can return for John Smith
JobReturns(county) ==
    IF county = K_miami_dade
    THEN { <<>>,
           << CourtCase("Civil", D_2024, S_Open, "Miami-Dade", P_Full),
              CourtCase("Civil", D_2023, S_Closed, "Miami-Dade", P_Full) >> }
    ELSE { << CourtCase("Civil", D_NA, S_PENDING, "Broward", P_Full) >> }

\* what get_scraper and the search() of Miami-Dade and Broward may raise;
\* both classes implement search()
JobExceptions == AdapterExceptions \ {"NotImplementedError"}

\* the thread of job_id before its first statement
NewWorker ==
    [pc |-> "begin", idx |-> 1, all_cases |-> <<>>, calls |-> <<>>,
     browser |-> <<>>, exc |-> "None"]

\* a thread that ended, at pc "done" after its last statement or at pc
\* "dead" by an exception no clause caught: its locals are gone
EndedWorker(how) == [NewWorker EXCEPT !.pc = how]

InitJobs ==
    /\ criteria = SearchCriteria(S_John, S_Smith, NoneStr, NoneStr)
    /\ now = [y |-> 2026, m |-> 11, d |-> 3, h |-> 12]
    /\ cases = <<>> /\ filtered = <<>> /\ fs_pc = "input"
    /\ OrchIdle
    /\ playwright_available = TRUE
    /\ NormIdle
    /\ SessIdle
    /\ JobsIdle

JobFrame ==
    /\ UNCHANGED <<criteria, now, playwright_available, response>>
    /\ UNCHANGED <<fsVars, orchVars, normVars, sessVars>>

\* POST /api/search: a body without first_name or last_name is answered 400;
\* otherwise the entry is stored under a new id (its position in the store),
\* the thread is started and the id is answered 202
StartSearch ==
    /\ \E valid \in BOOLEAN :
         IF valid
         THEN /\ Len(jobs) < MaxJobs
              /\ jobs' = Append(jobs,
                     JobEntry("running", "Starting search...", <<>>, "None"))
              /\ workers' = Append(workers, NewWorker)
              /\ reply' = << [op |-> "search", code |-> 202, id |-> Len(jobs) + 1] >>
         ELSE /\ reply' = << [op |-> "search", code |-> 400, id |-> 0] >>
              /\ UNCHANGED <<jobs, workers>>
    /\ UNCHANGED request
    /\ JobFrame

\* jobs[job_id]['status'] = 'running'
RunSearchBegin(j) ==
    /\ workers[j].pc = "begin"
    /\ jobs' = WriteJob(jobs, j, "status", "running")
    /\ workers' = [workers EXCEPT ![j].pc = "message"]
    /\ reply' = <<>>
    /\ UNCHANGED request
    /\ JobFrame

\* the head of one loop iteration: the message is written, get_scraper
\* builds the adapter and search() launches its browser
RunSearchMessage(j) ==
    /\ workers[j].pc = "message"
    /\ jobs' = WriteJob(jobs, j, "message", SearchingMessage(COUNTIES[workers[j].idx]))
    /\ workers' = [workers EXCEPT ![j].pc = "search",
                                  ![j].browser = NewBrowser(j, workers[j].idx)]
    /\ reply' = <<>>
    /\ UNCHANGED request
    /\ JobFrame

\* scraper.search(criteria) returns: all_cases.extend(cases), next county or
\* the end of the loop
RunSearchAdapterReturns(j) ==
    /\ workers[j].pc = "search"
    /\ \E cs \in JobReturns(COUNTIES[workers[j].idx]) :
         workers' = [workers EXCEPT
             ![j].all_cases = @ \o cs,
             ![j].calls = Append(@, [county |-> COUNTIES[workers[j].idx],
                                     outcome |-> "returned"]),
             ![j].browser = <<>>,
             ![j].idx = @ + 1,
             ![j].pc = IF workers[j].idx < Len(COUNTIES) THEN "message" ELSE "compile"]
    /\ reply' = <<>>
    /\ UNCHANGED <<jobs, request>>
    /\ JobFrame

\* get_scraper or scraper.search raises: control leaves the try block for
\* the except clause, or the thread ends when the clause does not match
RunSearchAdapterRaises(j) ==
    /\ workers[j].pc = "search"
    /\ \E exc \in JobExceptions :
         workers' =
             IF RunSearchCatches(exc)
             THEN [workers EXCEPT
                     ![j].calls = Append(@, [county |-> COUNTIES[workers[j].idx],
                                             outcome |-> "raised"]),
                     ![j].browser = <<>>,
                     ![j].exc = exc,
                     ![j].pc = "except"]
             ELSE [workers EXCEPT ![j] = EndedWorker("dead")]
    /\ reply' = <<>>
    /\ UNCHANGED <<jobs, request>>
    /\ JobFrame

\* open_cases = [c for c in all_cases if c.status.lower() in OPEN_STATUSES]
open_cases_of(cs) == SelectSeq(cs, LAMBDA c : Lower(c.status) \in OPEN_STATUSES)

\* jobs[job_id]['message'] = 'Compiling results...'
RunSearchCompile(j) ==
    /\ workers[j].pc = "compile"
    /\ jobs' = WriteJob(jobs, j, "message", "Compiling results...")
    /\ workers' = [workers EXCEPT ![j].pc = "respond"]
    /\ reply' = <<>>
    /\ UNCHANGED request
    /\ JobFrame

\* result = get_api_response(open_cases, criteria); jobs[job_id]['result'] = result
RunSearchResult(j) ==
    /\ workers[j].pc = "respond"
    /\ \E result \in {get_api_response(open_cases_of(workers[j].all_cases), criteria)} :
         jobs' = WriteJob(jobs, j, "result", << result >>)
    /\ workers' = [workers EXCEPT ![j].pc = "complete"]
    /\ reply' = <<>>
    /\ UNCHANGED request
    /\ JobFrame

\* jobs[job_id]['status'] = 'complete'
RunSearchComplete(j) ==
    /\ workers[j].pc = "complete"
    /\ jobs' = WriteJob(jobs, j, "status", "complete")
    /\ workers' = [workers EXCEPT ![j].pc = "final"]
    /\ reply' = <<>>
    /\ UNCHANGED request
    /\ JobFrame

\* jobs[job_id]['message'] = 'Search complete', then the print, then the
\* thread ends
RunSearchFinalMessage(j) ==
    /\ workers[j].pc = "final"
    /\ jobs' = WriteJob(jobs, j, "message", "Search complete")
    /\ workers' = [workers EXCEPT ![j] = EndedWorker("done")]
    /\ reply' = <<>>
    /\ UNCHANGED request
    /\ JobFrame

\* the except clause: jobs[job_id]['status'] = 'error'
RunSearchExceptStatus(j) ==
    /\ workers[j].pc = "except"
    /\ jobs' = WriteJob(jobs, j, "status", "error")
    /\ workers' = [workers EXCEPT ![j].pc = "except_error"]
    /\ reply' = <<>>
    /\ UNCHANGED request
    /\ JobFrame

\* the except clause: jobs[job_id]['error'] = str(e), then the message
RunSearchExceptError(j) ==
    /\ workers[j].pc = "except_error"
    /\ jobs' = WriteJob(WriteJob(jobs, j, "error", workers[j].exc),
                        j, "message", "Error")
    /\ workers' = [workers EXCEPT ![j] = EndedWorker("done")]
    /\ reply' = <<>>
    /\ UNCHANGED request
    /\ JobFrame

\* one statement of the thread of job j
RunSearchStep(j) ==
    \/ RunSearchBegin(j)
    \/ RunSearchMessage(j)
    \/ RunSearchAdapterReturns(j)
    \/ RunSearchAdapterRaises(j)
    \/ RunSearchCompile(j)
    \/ RunSearchResult(j)
    \/ RunSearchComplete(j)
    \/ RunSearchFinalMessage(j)
    \/ RunSearchExceptStatus(j)
    \/ RunSearchExceptError(j)

\* GET /api/status/<job_id>: 404 for an id the store lacks, else the
\* status and the message of the entry
GetStatus ==
    /\ request = <<>>
    /\ \E id \in 0..MaxJobs :
         reply' = IF id \in DOMAIN jobs
                  THEN << [op |-> "status", code |-> 200, id |-> id,
                           body |-> <<jobs[id].status, jobs[id].message>>] >>
                  ELSE << [op |-> "status", code |-> 404, id |-> id] >>
    /\ UNCHANGED <<jobs, workers, request>>
    /\ JobFrame

\* the test of get_results passes every job that left 'running'
ResultsReady_NotRunning(job) == job.status # "running"

\* the negation of `job['status'] != 'complete'`
ResultsReady(job) == job.status = "complete"

\* GET /api/results/<job_id> up to its status test: 404 for an id the store
\* lacks, 400 with the status when it is not 'complete', else on to the
\* return statement
GetResultsBegin ==
    /\ request = <<>>
    /\ \E id \in 0..MaxJobs :
         IF id \notin DOMAIN jobs
         THEN /\ reply' = << [op |-> "results", code |-> 404, id |-> id] >>
              /\ UNCHANGED request
         ELSE IF ~ResultsReady(jobs[id])
         THEN /\ reply' = << [op |-> "results", code |-> 400, id |-> id,
                              body |-> jobs[id].status] >>
              /\ UNCHANGED request
         ELSE /\ request' = << id >>
              /\ reply' = <<>>
    /\ UNCHANGED <<jobs, workers>>
    /\ JobFrame

\* return jsonify(job['result'])
GetResultsReturn ==
    /\ request # <<>>
    /\ reply' = << [op |-> "results", code |-> 200, id |-> request[1],
                    body |-> jobs[request[1]].result] >>
    /\ request' = <<>>
    /\ UNCHANGED <<jobs, workers>>
    /\ JobFrame

NextJobs ==
    \/ StartSearch
    \/ \E j \in DOMAIN workers : RunSearchBegin(j)
    \/ \E j \in DOMAIN workers : RunSearchMessage(j)
    \/ \E j \in DOMAIN workers : RunSearchAdapterReturns(j)
    \/ \E j \in DOMAIN workers : RunSearchAdapterRaises(j)
    \/ \E j \in DOMAIN workers : RunSearchCompile(j)
    \/ \E j \in DOMAIN workers : RunSearchResult(j)
    \/ \E j \in DOMAIN workers : RunSearchComplete(j)
    \/ \E j \in DOMAIN workers : RunSearchFinalMessage(j)
    \/ \E j \in DOMAIN workers : RunSearchExceptStatus(j)
    \/ \E j \in DOMAIN workers : RunSearchExceptError(j)
    \/ GetStatus
    \/ GetResultsBegin
    \/ GetResultsReturn

SpecJobs == InitJobs /\ [][NextJobs]_vars

\* the job store under start_search and the threads alone: get_status and
\* get_results write neither jobs nor workers
NextThreads ==
    \/ StartSearch
    \/ \E j \in DOMAIN workers : RunSearchBegin(j)
    \/ \E j \in DOMAIN workers : RunSearchMessage(j)
    \/ \E j \in DOMAIN workers : RunSearchAdapterReturns(j)
    \/ \E j \in DOMAIN workers : RunSearchAdapterRaises(j)
    \/ \E j \in DOMAIN workers : RunSearchCompile(j)
    \/ \E j \in DOMAIN workers : RunSearchResult(j)
    \/ \E j \in DOMAIN workers : RunSearchComplete(j)
    \/ \E j \in DOMAIN workers : RunSearchFinalMessage(j)
    \/ \E j \in DOMAIN workers : RunSearchExceptStatus(j)
    \/ \E j \in DOMAIN workers : RunSearchExceptError(j)

\* every started thread is scheduled again and again
FairSpecThreads ==
    /\ InitJobs /\ [][NextThreads]_vars
    /\ \A j \in 1..MaxJobs : WF_vars(j \in DOMAIN workers /\ RunSearchStep(j))

(***************************************************************************)
(* One search() of an adapter: the browser session of                      *)
(* _search_with_playwright, then _filter_and_sort_cases                    *)
(***************************************************************************)
S_Tai == <<"T","a","i">>
S_See == <<"S","e","e">>
S_DOB == <<"0","1","/","0","2","/","1","9","8","0">>

\* parties of a Miami-Dade generic table row and of a New York container
P_SeeCaseDetails ==
    <<"S","e","e"," ","c","a","s","e"," ","d","e","t","a","i","l","s">>

\* the lists the results markup of a site can parse into: no rows, one
\* row with its parties, or fallback extractions next to named rows (a
\* placeholder from the Miami-Dade generic row and the New York container,
\* empty parties from a New York row of three cells)
MarkupLists(key) ==
    { <<>>,
      << CourtCase("Civil", D_2024, S_Open, county_name(key), P_Full) >>,
      << CourtCase("Civil", D_2023, S_Open, county_name(key),
                   IF key = K_broward THEN P_LastOnly ELSE P_SeeCaseDetails),
         CourtCase("Civil", D_NA, S_Open, county_name(key),
                   IF key = K_new_york THEN <<>> ELSE P_NoLast),
         CourtCase("Civil", D_2024, S_PENDING, county_name(key), P_Full) >> }

\* what _parse_kendo_data builds from a grid that holds data
GridCases ==
    << CourtCase("Civil", D_2024, S_PENDING, "Broward", P_Full),
       CourtCase("Civil", D_2023, S_Closed, "Broward", P_InitialDot) >>

\* the visible text inputs of the search page in document order, each named
\* by the field the standard selectors find it as
InputLayouts ==
    { <<>>, <<"last">>, <<"first", "last">>, <<"last", "middle">>,
      <<"last", "first", "middle">>, <<"first", "last", "middle", "dob">> }

\* where the session raises: nowhere, at the browser launch, at goto, at
\* the wait for the results, at page.content() or at browser.close()
Faults == {"none", "launch", "goto", "wait", "content", "close"}

\* what a site can show to one browser session
Pages(key) ==
    [ login_ok     : IF key = K_broward THEN BOOLEAN ELSE {TRUE},
      nav_link     : IF key = K_miami_dade THEN BOOLEAN ELSE {TRUE},
      challenge    : IF key = K_new_york THEN {"none", "solved", "blocked"}
                     ELSE {"none"},
      inputs       : InputLayouts,
      dynamic      : IF key = K_broward THEN {<<>>, <<"first", "middle">>}
                     ELSE {<<>>},
      button       : BOOLEAN,
      fault        : Faults,
      grid         : IF key = K_broward THEN {"raises", "null", "empty", "data"}
                     ELSE {"null"},
      markup_cases : MarkupLists(key) ]

\* the criteria of the searches
AttemptCriteria ==
    { SearchCriteria(S_John, S_Smith, NoneStr, NoneStr),
      SearchCriteria(S_John, S_Smith, S_Lee, NoneStr),
      SearchCriteria(S_Tai, S_See, NoneStr, NoneStr) }

\* criteria.date_of_birth: given with the middle name, None without
date_of_birth_of(crit) == IF crit.middle_name = NoneStr THEN <<>> ELSE S_DOB

InitAttempt ==
    /\ criteria \in AttemptCriteria
    /\ now = [y |-> 2026, m |-> 11, d |-> 3, h |-> 12]
    /\ cases = <<>> /\ filtered = <<>> /\ fs_pc = "input"
    /\ OrchIdle
    /\ playwright_available = TRUE
    /\ NormIdle
    /\ JobsIdle
    /\ \E key \in RegistryKeys :
         \E shown \in Pages(key) :
           session = [ adapter       |-> key,
                        date_of_birth |-> date_of_birth_of(criteria),
                        page          |-> shown,
                        form          |-> <<>>,
                        at_pc         |-> "start",
                        submitted     |-> FALSE,
                        parser_used   |-> "none",
                        local_cases   |-> <<>>,
                        pw_result     |-> <<>>,
                        outcome       |-> "none" ]

AttemptFrame ==
    /\ UNCHANGED <<criteria, now, cases, fs_pc, playwright_available, response>>
    /\ UNCHANGED <<pc, idx, all_cases, calls, ny_mode, ny_outcomes, ny_slept>>
    /\ UNCHANGED <<normVars, jobVars>>

\* a standard selector list finds a visible input for the field
Located(s, role) == \E i \in DOMAIN s.page.inputs : s.page.inputs[i] = role

\* the attempt fails inside the try block, by an early `return []` or by an
\* exception the handler prints; New York retries a blocked or raising
\* attempt while a retry is left
AttemptFails(s, reason, a) ==
    [s EXCEPT !.outcome = reason,
              !.at_pc = IF /\ s.adapter = K_new_york
                           /\ reason \in {"blocked", "error"}
                           /\ HasRetryLeft(a)
                        THEN "retry" ELSE "leave"]

\* sync_playwright(), chromium.launch, new_context and new_page: before the
\* try block in Miami-Dade and Broward, inside it in New York
Launch ==
    /\ session.at_pc = "start"
    /\ session' =
         IF session.page.fault # "launch"
         THEN [session EXCEPT !.at_pc = "navigate"]
         ELSE IF session.adapter = K_new_york
         THEN AttemptFails(session, "error", attempt)
         ELSE [session EXCEPT !.at_pc = "raised", !.outcome = "error"]
    /\ UNCHANGED <<attempt, filtered>>
    /\ AttemptFrame

\* up to the search form: the Broward login, goto, the Miami-Dade Party
\* Name link, the New York challenge checked twice
Navigate ==
    /\ session.at_pc = "navigate"
    /\ session' =
         IF session.adapter = K_broward /\ ~session.page.login_ok
         THEN AttemptFails(session, "login_failed", attempt)
         ELSE IF session.page.fault = "goto"
         THEN AttemptFails(session, "error", attempt)
         ELSE IF session.adapter = K_miami_dade /\ ~session.page.nav_link
         THEN AttemptFails(session, "nav_not_found", attempt)
         ELSE IF session.adapter = K_new_york /\ session.page.challenge = "blocked"
         THEN AttemptFails(session, "blocked", attempt)
         ELSE [session EXCEPT !.at_pc = "fill"]
    /\ UNCHANGED <<attempt, filtered>>
    /\ AttemptFrame

\* the text the standard fill leaves in each input: the names in the fields
\* found for them, the middle name and the date of birth when given (Broward
\* has no date-of-birth selector)
StandardFill(inputs, crit, dob, key) ==
    [ i \in DOMAIN inputs |->
        IF inputs[i] = "first" THEN crit.first_name
        ELSE IF inputs[i] = "last" THEN crit.last_name
        ELSE IF inputs[i] = "middle" THEN crit.middle_name
        ELSE IF inputs[i] = "dob" /\ key # K_broward THEN dob
        ELSE <<>> ]

\* _fill_search_form, _fill_broward_search_form, _async_fill_ny_search_form
\* and the test of their result
FillForm ==
    /\ session.at_pc = "fill"
    /\ \E filled \in { [session EXCEPT !.form =
                          StandardFill(session.page.inputs, criteria,
                                       session.date_of_birth, session.adapter)] } :
         session' =
             IF Located(session, "first") /\ Located(session, "last")
             THEN [filled EXCEPT !.at_pc = "submit"]
             ELSE IF session.adapter = K_broward
             THEN [filled EXCEPT !.at_pc = "emergency"]
             ELSE AttemptFails(filled, "form_not_found", attempt)
    /\ UNCHANGED <<attempt, filtered>>
    /\ AttemptFrame

\* text_inputs[0].fill(criteria.first_name); text_inputs[1].fill(criteria.last_name)
FillFirstTwo(f, n, crit) ==
    [ i \in 1..n |->
        IF i = 1 THEN crit.first_name
        ELSE IF i = 2 THEN crit.last_name
        ELSE IF i <= Len(f) THEN f[i] ELSE <<>> ]

\* _emergency_broward_form_fill and the test of its result: the first two
\* visible text inputs take the names, at once or after the click on the
\* body brought more inputs
EmergencyFill ==
    /\ session.at_pc = "emergency"
    /\ \E after \in { session.page.inputs \o session.page.dynamic } :
         session' =
             IF Len(session.page.inputs) >= 2
             THEN [session EXCEPT
                     !.form = FillFirstTwo(@, Len(session.page.inputs), criteria),
                     !.at_pc = "submit"]
             ELSE IF Len(after) >= 2
             THEN [session EXCEPT
                     !.page.inputs = after,
                     !.page.dynamic = <<>>,
                     !.form = FillFirstTwo(@, Len(after), criteria),
                     !.at_pc = "submit"]
             ELSE AttemptFails(session, "form_not_found", attempt)
    /\ UNCHANGED <<attempt, filtered>>
    /\ AttemptFrame

\* _submit_search and _async_submit_ny_search click a button or press Enter;
\* _submit_broward_search clicks only a button it finds
Submit ==
    /\ session.at_pc = "submit"
    /\ session' = [session EXCEPT
                     !.submitted = (session.adapter # K_broward \/ session.page.button),
                     !.at_pc = "results"]
    /\ UNCHANGED <<attempt, filtered>>
    /\ AttemptFrame

\* cases = the parse of page.content()
ParseMarkup(s) ==
    [s EXCEPT !.local_cases = s.page.markup_cases,
              !.parser_used = "markup",
              !.outcome = "ok",
              !.at_pc = "leave"]

\* the waits after the submission and the extraction of the cases.
\* Miami-Dade and New York parse the markup; Broward asks the grid first.
ParseResults ==
    /\ session.at_pc = "results"
    /\ session' =
         IF session.adapter = K_new_york
         THEN IF session.page.fault \in {"content", "close"}
              THEN AttemptFails(session, "error", attempt)
              ELSE ParseMarkup(session)
         ELSE IF session.page.fault = "wait"
         THEN AttemptFails(session, "error", attempt)
         ELSE IF session.adapter = K_miami_dade
         THEN IF session.page.fault = "content"
              THEN AttemptFails(session, "error", attempt)
              ELSE ParseMarkup(session)
         ELSE IF session.page.grid = "data"
         THEN [session EXCEPT !.local_cases = GridCases,
                              !.parser_used = "grid",
                              !.outcome = "ok",
                              !.at_pc = "leave"]
         ELSE IF session.page.grid = "raises"
         THEN IF session.page.fault = "content"
              THEN AttemptFails(session, "error", attempt)
              ELSE ParseMarkup(session)
         ELSE [session EXCEPT !.outcome = "ok", !.at_pc = "leave"]
    /\ UNCHANGED <<attempt, filtered>>
    /\ AttemptFrame

\* the end of _search_with_playwright: `finally: browser.close()` and
\* `return cases` in Miami-Dade and Broward; in New York `return cases` of
\* the attempt that parsed and `return []` of every other
Leave ==
    /\ session.at_pc = "leave"
    /\ session' =
         IF session.adapter = K_new_york
         THEN [session EXCEPT
                 !.pw_result = << IF session.outcome = "ok"
                                  THEN session.local_cases ELSE <<>> >>,
                 !.at_pc = "filter"]
         ELSE IF session.page.fault = "close"
         THEN [session EXCEPT !.at_pc = "raised", !.outcome = "error"]
         ELSE [session EXCEPT !.pw_result = << session.local_cases >>,
                              !.at_pc = "filter"]
    /\ UNCHANGED <<attempt, filtered>>
    /\ AttemptFrame

\* the next iteration of `for attempt in range(self.MAX_RETRIES)` after the
\* backoff: a new browser and whatever the site shows then
Retry ==
    /\ session.at_pc = "retry"
    /\ attempt' = attempt + 1
    /\ \E shown \in Pages(K_new_york) :
         session' = [session EXCEPT !.page = shown,
                                    !.form = <<>>,
                                    !.submitted = FALSE,
                                    !.parser_used = "none",
                                    !.local_cases = <<>>,
                                    !.outcome = "none",
                                    !.at_pc = "start"]
    /\ UNCHANGED filtered
    /\ AttemptFrame

\* search(): filtered_cases = self._filter_and_sort_cases(cases, criteria);
\* return filtered_cases
SearchReturns ==
    /\ session.at_pc = "filter"
    /\ \E out \in {filter_and_sort_cases(session.pw_result[1], criteria, now)} :
         filtered' = out
    /\ session' = [session EXCEPT !.at_pc = "returned"]
    /\ UNCHANGED attempt
    /\ AttemptFrame

NextAttempt ==
    \/ Launch
    \/ Navigate
    \/ FillForm
    \/ EmergencyFill
    \/ Submit
    \/ ParseResults
    \/ Leave
    \/ Retry
    \/ SearchReturns

SpecAttempt == InitAttempt /\ [][NextAttempt]_vars

(***************************************************************************)
(* Properties of search_court_records (Spec)                               *)
(***************************************************************************)
Range(q) == { q[i] : i \in 1..Len(q) }

Returned == pc = "done"

InvalidCriteria == Len(criteria.first_name) = 0 \/ Len(criteria.last_name) = 0

ValidCriteria == ~InvalidCriteria

IsOpenBucket(c) == Upper(c.status) \in OPEN_STATUSES_UPPER

HasParsedDate(c) == c.filing_date.kind \in {"mdy", "isoz"}

FiledHours(c) == DaysFromCivil(c.filing_date.y, c.filing_date.m, c.filing_date.d) * 24

\* C1: the list search_court_records returns is ordered globally: every
\* Open/Active/Pending case precedes every other case, and within one status
\* bucket a later filing date precedes an earlier one, whatever the
\* jurisdictions of the two cases.
C1_GlobalOrder ==
    (Returned /\ ValidCriteria) =>
        \A i, j \in 1..Len(all_cases) :
            i < j =>
                /\ ~(IsOpenBucket(all_cases[j]) /\ ~IsOpenBucket(all_cases[i]))
                /\ ( /\ IsOpenBucket(all_cases[i]) = IsOpenBucket(all_cases[j])
                     /\ HasParsedDate(all_cases[i]) /\ HasParsedDate(all_cases[j])
                     => FiledHours(all_cases[i]) >= FiledHours(all_cases[j]) )

Statewide == Len(criteria.county) = 0

RECURSIVE ConcatCases(_)
ConcatCases(cs) ==
    IF cs = <<>> THEN <<>> ELSE Head(cs).cases \o ConcatCases(Tail(cs))

\* C2: in a statewide search no exception of an adapter escapes; the adapters
\* are invoked once each in registry order whatever the earlier ones raised;
\* a raising adapter contributes nothing and the result is the lists of the
\* returning adapters, in order.
C2_StatewideIsolation ==
    Statewide =>
        /\ pc # "raised"
        /\ Len(calls) <= 3
        /\ \A i \in 1..Len(calls) :
              /\ calls[i].county = <<K_miami_dade, K_broward, K_new_york>>[i]
              /\ calls[i].outcome = "raised" => calls[i].cases = <<>>
        /\ Returned => /\ Len(calls) = 3
                       /\ all_cases = ConcatCases(calls)

C2_Witness ==
    /\ Statewide /\ Returned
    /\ calls[1].outcome = "raised" /\ calls[1].exc = "Error"
    /\ calls[2].outcome = "returned" /\ calls[2].cases # <<>>
    /\ calls[3].outcome = "returned" /\ calls[3].cases # <<>>
    /\ Len(all_cases) = Len(calls[2].cases) + Len(calls[3].cases)

\* C3: with criteria.county naming one jurisdiction, search_court_records
\* returns normally whatever the adapter's constructor or search raises.
C3_SingleNeverRaises == (~Statewide /\ ValidCriteria) => pc # "raised"

\* C4: with an empty first or last name no adapter is constructed or invoked
\* and the search does not return a result.
C4_ValidationFirst ==
    InvalidCriteria => /\ calls = <<>>
                       /\ ny_mode = "none"
                       /\ pc \notin {"ny_loop", "ny_return", "done"}

NewYorkLoopEnded == ny_outcomes # <<>> /\ pc # "ny_loop"

AllBlocked == \A k \in 1..Len(ny_outcomes) : ny_outcomes[k] = "blocked"

NewYorkReturnedEmpty ==
    /\ pc # "raised"
    /\ pc = "ny_return" => cases = <<>>
    /\ pc # "ny_return" =>
          /\ calls # <<>>
          /\ calls[Len(calls)].county = K_new_york
          /\ calls[Len(calls)].outcome = "returned"
          /\ calls[Len(calls)].cases = <<>>

\* C5 as stated: when every attempt ends blocked the loop makes exactly 3
\* attempts, sleeps the delays 10, 30, 90 and returns an empty list.
C5_DelaySequence ==
    (NewYorkLoopEnded /\ AllBlocked) =>
        /\ Len(ny_outcomes) = 3
        /\ ny_slept = <<10, 30, 90>>
        /\ NewYorkReturnedEmpty

\* C5 amended: when every attempt ends blocked the loop makes exactly 3
\* attempts, sleeps 10 after the first and 30 after the second, nothing after
\* the third, and returns an empty list without raising.
C5_DelaysBetweenAttempts ==
    (NewYorkLoopEnded /\ AllBlocked) =>
        /\ Len(ny_outcomes) = 3
        /\ ny_slept = <<10, 30>>
        /\ NewYorkReturnedEmpty

C5_Witness ==
    /\ Returned
    /\ ny_outcomes = <<"blocked", "blocked", "blocked">>
    /\ ny_slept = <<10, 30>>
    /\ calls[Len(calls)].county = K_new_york

\* C6: an attempt is followed by another one only when it ended with an
\* unresolved challenge or a timeout.
C6_RetryOnlyBlockedOrTimeout ==
    ValidCriteria =>
      \A k \in 1..(Len(ny_outcomes) - 1) : ny_outcomes[k] \in {"blocked", "timeout"}

\* C17: without Playwright no adapter invocation ends as an ordinary return;
\* each ends with an error the caller can tell from a search without cases.
C17_CapabilityFailFast ==
    (ValidCriteria /\ ~playwright_available) =>
        \A k \in 1..Len(calls) : calls[k].outcome # "returned"

Responded == pc = "responded"

\* the registry key a name in the metadata stands for: "New York" and
\* "New-York" both stand for new-york
JurisdictionKey(name) ==
    LET key == Strip(Lower(name))
    IN  [i \in 1..Len(key) |-> IF key[i] = " " THEN "-" ELSE key[i]]

\* the jurisdictions whose adapter was invoked and returned
ReachedJurisdictions ==
    { calls[k].county : k \in { j \in 1..Len(calls) : calls[j].outcome = "returned" } }

\* C18: the metadata of the response lists exactly the jurisdictions whose
\* adapter was invoked and reached in this search.
C18_SearchedAreReached ==
    (Responded /\ ValidCriteria) =>
        { JurisdictionKey(n) : n \in Range(response[1].metadata.searched_counties) }
            = ReachedJurisdictions

\* search_court_records has returned or raised
Terminated == pc \in {"done", "responded", "raised"}

C20_DelayBetweenInvocations ==
    (Statewide /\ ValidCriteria) =>
        \A k \in 1..(Len(calls) - 1) : calls[k].slept = COUNTY_DELAY

\* C29: whatever the outcomes of the attempts, the New York loop makes at
\* most 3 attempts; a failed attempt k < 3 (blocked, timeout, other
\* exception) is followed by a sleep of 10 seconds for k = 1 and 30 seconds
\* for k = 2; nothing is slept after the third attempt; a parsed or
\* form-not-found attempt is the last attempt and the loop has ended.
C29_RetryLoopShape ==
    LET n == Len(ny_outcomes)
        failed(k) == ny_outcomes[k] \in {"blocked", "timeout", "error"}
        backed_off == { k \in 1..n : k < 3 /\ failed(k) }
    IN  /\ n <= 3
        /\ Len(ny_slept) = Cardinality(backed_off)
        /\ \A k \in 1..Len(ny_slept) : failed(k) /\ ny_slept[k] = <<10, 30>>[k]
        /\ \A k \in 1..n :
              ny_outcomes[k] \in {"parsed", "form_not_found"} =>
                  k = n /\ pc # "ny_loop"
        /\ (n = 3 /\ failed(3)) => pc # "ny_loop"

\* a timeout, a blocked attempt and a parsed third attempt
C29_Witness ==
    /\ ny_outcomes = <<"timeout", "blocked", "parsed">>
    /\ ny_slept = <<10, 30>>
    /\ pc # "ny_loop"

(***************************************************************************)
(* Properties of _filter_and_sort_cases (SpecFilter)                       *)
(***************************************************************************)
Applied == fs_pc = "applied"

InOutput(c) == c \in Range(filtered)

\* C7 as stated: a case is removed for its type exactly when the type is
\* Family, Criminal Felony, Criminal Misdemeanor or Traffic.
C7_FourExcludedTypes ==
    Applied =>
        \A i \in 1..Len(cases) :
            LET c == cases[i]
                excluded == c.case_type \in
                    {"Family", "Criminal Felony", "Criminal Misdemeanor", "Traffic"}
            IN  /\ excluded => ~InOutput(c)
                /\ (~excluded /\ ~TooOld(c, now) /\ NameMatches(c, criteria))
                     => InOutput(c)

\* C7 amended: a case is removed for its type exactly when the type is
\* Family, Criminal, Criminal Felony, Criminal Misdemeanor or Traffic; a case
\* of any other type that passes the age and name stages is in the output.
C7_FiveExcludedTypes ==
    Applied =>
        \A i \in 1..Len(cases) :
            LET c == cases[i]
                excluded == c.case_type \in
                    {"Family", "Criminal", "Criminal Felony",
                     "Criminal Misdemeanor", "Traffic"}
            IN  /\ excluded => ~InOutput(c)
                /\ (~excluded /\ ~TooOld(c, now) /\ NameMatches(c, criteria))
                     => InOutput(c)

C7_Witness ==
    /\ Applied
    /\ \E i, j \in 1..Len(cases) :
          /\ cases[i].case_type = "Criminal" /\ ~InOutput(cases[i])
          /\ cases[j].case_type = "Foreclosure" /\ InOutput(cases[j])

\* a case the type and name stages let through: only the age stage can
\* remove it
ReachesAgeStageOnly(c) ==
    c.case_type \notin EXCLUDED_CASE_TYPES /\ NameMatches(c, criteria)

\* the reference clock minus k calendar years
CalendarYearsAgo(n, k) == DaysFromCivil(n.y - k, n.m, n.d) * 24 + n.h

NameRule(c, crit) ==
    LET party == Lower(c.parties)
        first == Lower(crit.first_name)
        last  == Lower(crit.last_name)
    IN  /\ Contains(last, party)
        /\ \/ Contains(first, party)
           \/ Len(first) > 0 /\ Contains(<<first[1], ".", " ">> \o last, party)
           \/ Len(first) > 0 /\ Contains(<<first[1], " ">> \o last, party)
           \/ Len(crit.middle_name) > 0 /\ Contains(Lower(crit.middle_name), party)

\* C9: the name stage keeps a case exactly when the last name occurs in
\* parties and the first name, an initial pattern or the middle name does.
C9_NameRelevance ==
    Applied =>
        \A i \in 1..Len(cases) :
            LET c == cases[i]
            IN  (c.case_type \notin EXCLUDED_CASE_TYPES /\ ~TooOld(c, now))
                  => (InOutput(c) <=> NameRule(c, criteria))

\* C10: in the output every Open case is strictly before every Closed case,
\* whatever their filing dates.
C10_OpenBeforeClosed ==
    Applied =>
        \A i, j \in 1..Len(filtered) :
            (filtered[i].status = S_Open /\ filtered[j].status = S_Closed) => i < j

C10_Witness ==
    /\ Applied
    /\ Len(cases) >= 2
    /\ cases[1].status = S_Closed /\ cases[1].filing_date = D_2024
    /\ cases[2].status = S_Open /\ cases[2].filing_date \in {D_2023, D_Text}
    /\ filtered = <<cases[2], cases[1]>>

HasUnknownDate(c) == c.filing_date.kind \in {"empty", "na", "text"}

SameBucket(c, d) == IsOpenBucket(c) = IsOpenBucket(d)

\* C11 as stated: within one status bucket a case whose filing date is
\* empty, "N/A" or unparseable is before every case whose parseable filing
\* date is earlier than the reference clock.
C11_UnknownDateSortsAsNow ==
    Applied =>
        \A i, j \in 1..Len(filtered) :
            ( /\ SameBucket(filtered[i], filtered[j])
              /\ HasUnknownDate(filtered[i])
              /\ HasParsedDate(filtered[j])
              /\ FiledHours(filtered[j]) < NowHours(now) ) => i < j

\* C11 amended: within one status bucket a case whose filing date is empty,
\* "N/A" or unparseable is positioned as if filed at the epoch, 1 January
\* 1970: it is after every case whose parseable filing date is later than
\* the epoch.
C11_UnknownDateSortsAsEpoch ==
    Applied =>
        \A i, j \in 1..Len(filtered) :
            ( /\ SameBucket(filtered[i], filtered[j])
              /\ HasUnknownDate(filtered[i])
              /\ HasParsedDate(filtered[j])
              /\ FiledHours(filtered[j]) > 0 ) => j < i

C11_Witness ==
    /\ Applied
    /\ Len(cases) = 2
    /\ cases[1].status = S_Open /\ cases[1].filing_date \in {D_NA, D_Empty, D_Text}
    /\ cases[2].status = S_Open /\ cases[2].filing_date = D_2023
    /\ filtered = <<cases[2], cases[1]>>

\* the instant the sort orders a case by: its filing date, or the epoch
DateRank(c) == IF HasParsedDate(c) THEN FiledHours(c) ELSE 0

SameKey(c, d) == SameBucket(c, d) /\ DateRank(c) = DateRank(d)

\* the input cases the filter kept, in input order
KeptInInputOrder == SelectSeq(cases, LAMBDA c : InOutput(c))

\* C12: within one status bucket, of two cases with parseable filing dates
\* the one filed later is before the one filed earlier; the cases of one
\* sort key are in the output in their input order.
C12_NewestFirstStable ==
    Applied =>
        /\ \A i, j \in 1..Len(filtered) :
              ( /\ SameBucket(filtered[i], filtered[j])
                /\ HasParsedDate(filtered[i]) /\ HasParsedDate(filtered[j])
                /\ FiledHours(filtered[i]) > FiledHours(filtered[j]) ) => i < j
        /\ \A k \in 1..Len(filtered) :
              SelectSeq(filtered, LAMBDA c : SameKey(c, filtered[k]))
                = SelectSeq(KeptInInputOrder, LAMBDA c : SameKey(c, filtered[k]))

\* the older of two cases of one bucket given first
C12_Witness ==
    /\ Applied
    /\ Len(cases) = 2
    /\ filtered = <<cases[2], cases[1]>>
    /\ SameBucket(cases[1], cases[2])
    /\ HasParsedDate(cases[1]) /\ HasParsedDate(cases[2])
    /\ FiledHours(cases[2]) > FiledHours(cases[1])

\* C13: applying _filter_and_sort_cases to its own output, with the same
\* criteria and clock, returns the identical list.
C13_Idempotent == fs_pc = "reapplied" => filtered = cases

\* a second application to two different cases of one sort key
C13_Witness ==
    /\ fs_pc = "reapplied"
    /\ Len(filtered) = 2
    /\ filtered[1] # filtered[2]
    /\ SameKey(filtered[1], filtered[2])

\* C28: the summary of get_api_response is consistent with the list it was
\* given: total = open + closed, open counts the cases whose upper-cased
\* status is OPEN, ACTIVE or PENDING, has_open_cases is open > 0, and the
\* cases array is the input list, entry by entry.
C28_SummaryConsistent ==
    fs_pc = "responded" =>
        LET r == response[1]
            open_positions ==
                { i \in 1..Len(cases) :
                    Upper(cases[i].status) \in
                        { <<"O","P","E","N">>, <<"A","C","T","I","V","E">>,
                          <<"P","E","N","D","I","N","G">> } }
        IN  /\ r.summary.total_cases = r.summary.open_cases + r.summary.closed_cases
            /\ r.summary.open_cases = Cardinality(open_positions)
            /\ r.summary.has_open_cases = (r.summary.open_cases > 0)
            /\ Len(r.cases) = r.summary.total_cases
            /\ r.cases = cases

\* a PENDING case and a case of status Unknown: one open, one closed
C28_Witness ==
    /\ fs_pc = "responded"
    /\ Len(cases) = 2
    /\ cases[1].status = S_PENDING
    /\ cases[2].status = S_Unknown
    /\ response[1].summary.open_cases = 1
    /\ response[1].summary.closed_cases = 1

(***************************************************************************)
(* Properties of the extraction functions (SpecNormalize)                  *)
(***************************************************************************)
Extracted == norm_pc = "parsed" /\ Len(parsed) = 1

\* C14: every case an extraction function creates has the status Open,
\* Closed or Unknown.
C14_CanonicalStatus ==
    Extracted => parsed[1].status \in {S_Open, S_Closed, S_Unknown}

\* the extraction ran a classifier on the record
Classified ==
    Extracted /\ raw_record.path \in
        {"miami_dade_card", "broward_grid", "broward_row", "new_york_row",
         "new_york_container"}

\* the upper-cased text the classifier of the record reads
ClassifiedText ==
    CASE raw_record.path = "miami_dade_card" ->
           Upper(raw_record.case_type_code \o raw_record.section)
      [] raw_record.path = "broward_grid" ->
           Upper(Strip(raw_record.CourtType \o <<" ">> \o raw_record.CaseUTypeDesc))
      [] raw_record.path = "broward_row" -> Upper(raw_record.cell_texts[3])
      [] raw_record.path = "new_york_row" ->
           Upper(TypeText("Civil") \o <<" ">>
                   \o (IF Len(raw_record.cell_texts) >= 4
                       THEN raw_record.cell_texts[4] ELSE <<>>)
                   \o <<" ">> \o Join(raw_record.cell_texts, <<" ">>))
      [] raw_record.path = "new_york_container" ->
           Upper(TypeText("Civil") \o <<" ">> \o raw_record.text \o <<" ">>)

\* the keyword sets of the record's classifier, as a set: branch order left out
KeywordSets ==
    CASE raw_record.path = "miami_dade_card" -> Range(MiamiDadeRules)
      [] raw_record.path \in {"broward_grid", "broward_row"} -> Range(BrowardRules)
      [] raw_record.path \in {"new_york_row", "new_york_container"} ->
           Range(NewYorkRules)
             \cup { Rule({<<"C","I","V","I","L">>, <<"L","A","W","S","U","I","T">>,
                          <<"A","C","T","I","O","N">>}, "Civil") }

\* the categories with a keyword in the text
MatchedCategories == { r.result : r \in { q \in KeywordSets : AnyIn(q.terms, ClassifiedText) } }

Rank(order, category) == CHOOSE i \in 1..Len(order) : order[i] = category

\* the matched category that is first in `order`, or the default "Civil"
FirstInOrder(order) ==
    IF MatchedCategories = {} THEN "Civil"
    ELSE CHOOSE c \in MatchedCategories :
            \A d \in MatchedCategories : Rank(order, c) <= Rank(order, d)

OneFixedOrder ==
    << "Criminal Felony", "Criminal Misdemeanor", "Family", "Probate", "Civil",
       "Small Claims", "Foreclosure", "Traffic", "Commercial", "Contract",
       "Insurance", "Debt Collection", "Real Estate", "Professional Malpractice" >>

\* C15 as stated: in every jurisdiction the category is the first one, in the
\* one order Criminal Felony, Criminal Misdemeanor, Family, Probate, Civil,
\* Small Claims, Foreclosure, Traffic, Commercial, Contract, Insurance, Debt
\* Collection, Real Estate, Professional Malpractice, that has a keyword in
\* the text, and the default when none has.
C15_OneFixedOrder ==
    Classified => parsed[1].case_type = FirstInOrder(OneFixedOrder)

AdapterOrder ==
    CASE raw_record.path = "miami_dade_card" ->
           << "Criminal Felony", "Criminal Misdemeanor", "Family", "Probate",
              "Civil", "Small Claims", "Traffic" >>
      [] raw_record.path \in {"broward_grid", "broward_row"} ->
           << "Criminal Felony", "Criminal Misdemeanor", "Family", "Traffic",
              "Foreclosure", "Small Claims", "Probate", "Civil" >>
      [] raw_record.path \in {"new_york_row", "new_york_container"} ->
           << "Commercial", "Contract", "Insurance", "Debt Collection",
              "Real Estate", "Professional Malpractice", "Civil" >>

\* C15 amended: classification is first-match-wins over an order that each
\* jurisdiction fixes for itself.  Miami-Dade: Criminal Felony, Criminal
\* Misdemeanor, Family, Probate, Civil, Small Claims, Traffic.  Broward:
\* Criminal Felony, Criminal Misdemeanor, Family, Traffic, Foreclosure, Small
\* Claims, Probate, Civil.  New York: Commercial, Contract, Insurance, Debt
\* Collection, Real Estate, Professional Malpractice, Civil.  The default
\* applies when no category has a keyword in the text.
C15_PerAdapterOrder ==
    Classified => parsed[1].case_type = FirstInOrder(AdapterOrder)

\* Broward reads "PROBATE FORECLOSURE" as Foreclosure
C15_Witness ==
    /\ Classified
    /\ raw_record.path = "broward_row"
    /\ raw_record.cell_texts[3] =
         <<"P","R","O","B","A","T","E"," ","F","O","R","E","C","L","O","S","U","R","E">>
    /\ MatchedCategories = {"Probate", "Foreclosure"}
    /\ parsed[1].case_type = "Foreclosure"

\* text.split(" ") for single blanks
RECURSIVE Words(_)
Words(text) ==
    IF \E i \in 1..Len(text) : text[i] = " "
    THEN LET i == CHOOSE k \in 1..Len(text) :
                      text[k] = " " /\ \A j \in 1..(k - 1) : text[j] # " "
         IN  <<SubSeq(text, 1, i - 1)>> \o Words(SubSeq(text, i + 1, Len(text)))
    ELSE <<text>>

Reverse(q) == [i \in 1..Len(q) |-> q[Len(q) + 1 - i]]

\* the words of the text in the opposite order
ReverseWords(text) == Join(Reverse(Words(text)), <<" ">>)

S_ForeclosureAction ==
    <<"F","O","R","E","C","L","O","S","U","R","E"," ","A","C","T","I","O","N">>

\* the record gives a Florida classifier the text "FORECLOSURE ACTION" alone
OnlyForeclosureAction ==
    \/ /\ raw_record.path = "miami_dade_card"
       /\ raw_record.case_type_code = S_ForeclosureAction /\ raw_record.section = <<>>
    \/ /\ raw_record.path = "broward_grid"
       /\ raw_record.CourtType = <<>> /\ raw_record.CaseUTypeDesc = S_ForeclosureAction
    \/ /\ raw_record.path = "broward_row"
       /\ raw_record.cell_texts[3] = S_ForeclosureAction

\* the category of the record with the parts of its text in another order:
\* the words turned around, or the two fields combined the other way round
ReorderedCategories ==
    CASE raw_record.path = "miami_dade_card" ->
           { classify_case_type_from_code(raw_record.section,
                                          raw_record.case_type_code, "Civil"),
             classify_case_type_from_code(ReverseWords(raw_record.case_type_code),
                                          ReverseWords(raw_record.section), "Civil") }
      [] raw_record.path = "broward_grid" ->
           { classify_broward_case_type(
               Strip(raw_record.CaseUTypeDesc \o <<" ">> \o raw_record.CourtType), "Civil"),
             classify_broward_case_type(
               ReverseWords(Strip(raw_record.CourtType \o <<" ">>
                                    \o raw_record.CaseUTypeDesc)), "Civil") }
      [] raw_record.path = "broward_row" ->
           { classify_broward_case_type(ReverseWords(raw_record.cell_texts[3]), "Civil") }
      [] raw_record.path = "new_york_row" ->
           LET cells == [i \in 1..Len(raw_record.cell_texts) |->
                            ReverseWords(raw_record.cell_texts[i])]
           IN  { classify_ny_case_type("Civil",
                     IF Len(cells) >= 4 THEN cells[4] ELSE <<>>, cells) }
      [] raw_record.path = "new_york_container" ->
           { classify_ny_case_type("Civil", ReverseWords(raw_record.text), <<>>) }

\* C16: the text "FORECLOSURE ACTION" alone classifies as Foreclosure, and
\* the category does not change when the words of the text, or the order in
\* which two fields are combined, are re-ordered.
C16_OrderIndependent ==
    Classified =>
        /\ OnlyForeclosureAction => parsed[1].case_type = "Foreclosure"
        /\ ReorderedCategories = {parsed[1].case_type}

(***************************************************************************)
(* Properties of one adapter search (SpecAttempt)                          *)
(***************************************************************************)
\* C21: a Broward attempt that submitted the form and came to its
\* extraction takes the cases from the grid when the grid holds data, and
\* from the rendered markup whenever the grid query raised, returned null
\* or returned no data
C21_GridThenMarkup ==
    (session.adapter = K_broward /\ session.submitted /\ session.outcome = "ok") =>
        /\ session.page.grid = "data" => session.parser_used = "grid"
        /\ session.page.grid \in {"raises", "null", "empty"}
              => session.parser_used = "markup"

\* C22: an attempt that failed makes search() return the empty list: the
\* call does not raise, _search_with_playwright hands back [] and so does
\* search()
C22_FailedAttemptYieldsEmpty ==
    session.outcome \notin {"none", "ok"} =>
        /\ session.at_pc # "raised"
        /\ session.at_pc = "filter" => session.pw_result = << <<>> >>
        /\ session.at_pc = "returned" => filtered = <<>>

\* C23: a submitted form holds the first name in a first-name field that
\* was found and the last name in a last-name field that was found; an
\* attempt ends as form-not-found only when one of the two is missing, and
\* then nothing was submitted or parsed and search() returns the empty list
C23_SubmitOnlyAfterBothNames ==
    /\ session.submitted =>
          /\ \E i \in DOMAIN session.form :
                /\ session.page.inputs[i] = "first"
                /\ session.form[i] = criteria.first_name
          /\ \E i \in DOMAIN session.form :
                /\ session.page.inputs[i] = "last"
                /\ session.form[i] = criteria.last_name
    /\ session.outcome = "form_not_found" =>
          /\ ~(Located(session, "first") /\ Located(session, "last"))
          /\ ~session.submitted /\ session.parser_used = "none"
          /\ session.at_pc = "returned" => filtered = <<>>

\* C30: every case search() returns has the last name of the criteria in
\* its parties, letter case aside; a case with the placeholder or with empty
\* parties is returned only when the names occur in that text
C30_ReturnedNamesLastName ==
    session.at_pc = "returned" =>
        \A i \in DOMAIN filtered :
            /\ Contains(Lower(criteria.last_name), Lower(filtered[i].parties))
            /\ filtered[i].parties \in {P_SeeCaseDetails, <<>>} =>
                  /\ Len(filtered[i].parties) > 0
                  /\ \/ Contains(Lower(criteria.first_name), Lower(filtered[i].parties))
                     \/ /\ Len(criteria.middle_name) > 0
                        /\ Contains(Lower(criteria.middle_name), Lower(filtered[i].parties))

\* New York parsed a container with the placeholder and a row with empty
\* parties next to a row naming John Smith, and search() returned that row
\* alone
C30_Witness ==
    /\ session.at_pc = "returned"
    /\ session.adapter = K_new_york
    /\ criteria.last_name = S_Smith
    /\ \E i \in DOMAIN session.pw_result[1] :
         session.pw_result[1][i].parties = P_SeeCaseDetails
    /\ \E i \in DOMAIN session.pw_result[1] :
         session.pw_result[1][i].parties = <<>>
    /\ Len(filtered) = 1
    /\ filtered[1].parties = P_Full

(***************************************************************************)
(* Properties of the job store and the run_search threads (SpecJobs)       *)
(***************************************************************************)
\* a call of get_scraper or search() in the thread of job j raised
SomeCallRaised(j) ==
    \E i \in DOMAIN workers[j].calls : workers[j].calls[i].outcome = "raised"

\* C24: when get_scraper or search() raises for one county the thread does
\* not leave the loop for the except clause and the job does not end in
\* status 'error'
C24_CountyFailureIsolated ==
    \A j \in DOMAIN workers :
        SomeCallRaised(j) =>
            /\ workers[j].pc \notin {"except", "except_error"}
            /\ jobs[j].status # "error"

\* C25: a statement of the thread of job j leaves the entry of every other
\* job as it was, and two searches running at the same time never hold the
\* same browser
C25_NoSharedMutableState ==
    /\ [][\A j \in DOMAIN workers :
             workers'[j] # workers[j] =>
                 \A k \in DOMAIN jobs \ {j} : jobs'[k] = jobs[k]]_vars
    /\ [](\A j, k \in DOMAIN workers :
             (j # k /\ workers[j].browser # <<>> /\ workers[k].browser # <<>>)
                 => workers[j].browser # workers[k].browser)

\* two threads are inside search() at once and the store holds the writes
\* of both
C25_Witness ==
    /\ Len(workers) = 2
    /\ workers[1].pc = "search" /\ workers[2].pc = "search"
    /\ workers[1].idx = 2 /\ workers[2].idx = 1
    /\ jobs[1].message = SearchingMessage(K_broward)
    /\ jobs[2].message = SearchingMessage(K_miami_dade)

\* C26: a job with status 'complete' has a result; GET /api/results answers
\* 404 exactly for an id the store lacks, 400 with the status for a job
\* that is not 'complete', and 200 with the stored result only for a job
\* that is 'complete'
C26_CompleteHasResult ==
    /\ \A j \in DOMAIN jobs : jobs[j].status = "complete" => jobs[j].result # <<>>
    /\ \A i \in DOMAIN reply :
         reply[i].op = "results" =>
            /\ reply[i].code \in {200, 400, 404}
            /\ reply[i].code = 404 <=> reply[i].id \notin DOMAIN jobs
            /\ reply[i].code = 400 =>
                  /\ jobs[reply[i].id].status # "complete"
                  /\ reply[i].body = jobs[reply[i].id].status
            /\ reply[i].code = 200 =>
                  /\ jobs[reply[i].id].status = "complete"
                  /\ reply[i].body = jobs[reply[i].id].result
                  /\ reply[i].body # <<>>

\* the results of a complete job were answered while another job was
\* still running
C26_Witness ==
    /\ Len(jobs) = 2
    /\ jobs[2].status = "running"
    /\ reply # <<>>
    /\ reply[1].op = "results" /\ reply[1].code = 200 /\ reply[1].id = 1
    /\ reply[1].body # <<>>
    /\ reply[1].body[1].summary.total_cases = 2

\* C27: the status is one of 'running', 'complete' and 'error'; a new entry
\* is 'running'; an entry that is 'complete' or 'error' keeps its status;
\* every started job becomes 'complete' or 'error'
C27_StatusLifecycle ==
    /\ [](\A j \in DOMAIN jobs : jobs[j].status \in {"running", "complete", "error"})
    /\ [][\A j \in DOMAIN jobs' :
             /\ j \notin DOMAIN jobs => jobs'[j].status = "running"
             /\ (j \in DOMAIN jobs /\ jobs[j].status \in {"complete", "error"})
                   => jobs'[j].status = jobs[j].status]_vars
    /\ \A j \in 1..MaxJobs :
         (j \in DOMAIN jobs) ~>
             (j \in DOMAIN jobs /\ jobs[j].status \in {"complete", "error"})

\* one job ended 'error' and another 'complete'
C27_Witness ==
    /\ Len(jobs) = 2
    /\ jobs[1].status = "error" /\ workers[1].pc = "done"
    /\ jobs[2].status = "complete" /\ workers[2].pc = "done"

====
